---- MODULE Spec2Model ----
(***************************************************************************)
(* State-machine model of the ESP8266 environmental-monitor sketches:      *)
(*   "v2.0"  Professional Firmware v2.0        (src/unnamed/part_001)      *)
(*   "mc3.0" Mission Control System v3.0       (src/unnamed/part_000)      *)
(*   "v1.2"  Production Firmware v1.2          (src/testirockett.ino)      *)
(*   "cansat" CanSat Firmware 3.0              (src/testirockett.ino)      *)
(* Each sketch is a separate program; the variable firmware says which one *)
(* a behaviour runs.  Init is the state at the end of setup().             *)
(*                                                                         *)
(* Units.  Floats are modelled exactly on the grid the hardware delivers:  *)
(*   temperature, altitude           : tenths (215 = 21.5)                 *)
(*   humidity, cpu_load              : whole percent                       *)
(*   pressure                        : Pa (hPa * 100), as bmp.readPressure *)
(*   battery_voltage                 : adcValue * 42, i.e. V * 10230       *)
(*   NaN                             : the value NaN below                 *)
(***************************************************************************)
EXTENDS Integers, Sequences, FiniteSets, TLC

VARIABLES
    firmware,     \* which sketch runs
    env,          \* what the hardware of this board can deliver (input sets)
    now,          \* millis()
    sched,        \* the last-run timestamps of loop() and the locals of the
                  \*   iteration under way (currentMillis, profile)
    flightLog,    \* mc3.0: the flight log file on SPIFFS
    link,         \* connectWiFi(): its position, the local attempts, the LED
    initOk,       \* ghost: what setup() found, bmp.begin() and the DHT test read
    trendLog,     \* ghost: the trend evaluations so far (their number, the time
                  \*        and the stored pressure of the latest)
    sensorData,   \* struct SensorData sensorData
    history,      \* struct HistoryBuffer history
    histSeq,      \* ghost: slot -> ordinal of the updateHistory call that wrote it
    appends,      \* ghost: number of updateHistory calls since boot
    systemState,  \* struct SystemState systemState
    trendStatics, \* the static locals of the trend computation (lastPressure)
    stats,        \* mc3.0: struct Statistics stats, with the static readingCount
    data,         \* cansat: struct MissionData data
    stage,        \* position of loop() inside one iteration
    driver,       \* ghost: what the step just taken ran, with the driver returns
    autoDowngraded, \* ghost: the profile was switched by updateSystemHealth and
                  \*        no operator profile command came since
    reply         \* what the step just taken sent to the HTTP client, or NoReply

vars == <<firmware, env, link, sched, flightLog, now, initOk, trendLog, autoDowngraded, sensorData, history, histSeq, appends, systemState,
          trendStatics, stats, data, stage, driver, reply>>

----------------------------------------------------------------------------
(* unsigned long arithmetic.  An unsigned 32-bit value is held as the       *)
(* 32-bit two's-complement integer with the same bits: u below 2^31 as u,   *)
(* u from 2^31 on as u - 2^32.  millis() wraps at 2^32, the step from -1 to *)
(* 0 in this form.                                                          *)

(* a - b modulo 2^32 *)
Sub32(a, b) ==
    IF (a >= 0) = (b >= 0) THEN a - b
    ELSE IF a >= 0
    THEN IF a <= 2147483647 + b THEN a - b
         ELSE ((((a - 2147483647) - 1) - b) - 2147483647) - 1
    ELSE IF a >= (b - 2147483647) - 1 THEN a - b
         ELSE ((((a + 2147483647) + 1) - b) + 2147483647) + 1

(* a >= b of two unsigned values *)
GeU32(a, b) ==
    IF (a >= 0) = (b >= 0) THEN a >= b ELSE a < 0

(* Faulty variant: compares with the deadline lastRun + interval *)
IntervalElapsed_Deadline(currentMillis, lastRun, interval) ==
    GeU32(currentMillis, lastRun + interval)

(* currentMillis - lastRun >= interval, the test of every scheduler stage *)
IntervalElapsed(currentMillis, lastRun, interval) ==
    GeU32(Sub32(currentMillis, lastRun), interval)

----------------------------------------------------------------------------
(* Program constants *)

HISTORY_SIZE == 60

NaN == -1000000

NoReply == [kind |-> "none"]

NoInput == [kind |-> "none"]

(* Bounds of the model *)
MaxAppends == 125

----------------------------------------------------------------------------
(* Float helpers: every comparison with NaN is false, as in C *)

isnan(x) == x = NaN

FLt(a, b) == ~isnan(a) /\ ~isnan(b) /\ a < b

FGt(a, b) == ~isnan(a) /\ ~isnan(b) /\ a > b

FGe(a, b) == ~isnan(a) /\ ~isnan(b) /\ a >= b

FLe(a, b) == ~isnan(a) /\ ~isnan(b) /\ a <= b

Min(a, b) == IF a < b THEN a ELSE b

(* A pressure is stored as the float pressurePa / 100.0.  The model keeps   *)
(* pressurePa; FloatHpa is the float it stands for, in units of 2^-15 hPa:  *)
(* a float in [256, 512) hPa is a multiple of 2^-15, in [512, 1024) of      *)
(* 2^-14, in [1024, 2048) of 2^-13 (pressurePa / 100 is never half-way      *)
(* between two floats, 25 being odd).  0 is 0.0.                            *)
RoundDiv(n, d) == (2 * n + d) \div (2 * d)

FloatHpa(pa) ==
    IF pa = 0 THEN 0
    ELSE IF pa < 51200 THEN RoundDiv(pa * 8192, 25)
    ELSE IF pa < 102400 THEN 2 * RoundDiv(pa * 4096, 25)
    ELSE 4 * RoundDiv(pa * 2048, 25)

Abs(x) == IF x < 0 THEN 0 - x ELSE x

(* The float a - b of two floats in units of 2^-15 hPa: exact below 512     *)
(* hPa, rounded to the nearest multiple of 2^-14 (ties to the even          *)
(* mantissa) from 512 hPa on                                                *)
FSub(a, b) ==
    LET d == a - b
    IN IF Abs(d) < 512 * 32768 \/ d % 2 = 0 THEN d
       ELSE IF (d + 1) % 4 = 0 THEN d + 1 ELSE d - 1

(* String(x, decimals) of a float held in units of 2^-15: rounded half away *)
(* from zero to a multiple of 1 / scale (scale is 10 ^ decimals), returned  *)
(* as that multiple                                                         *)
FmtFloat(q, scale) ==
    LET m == Abs(q)
        r == (m \div 32768) * scale + ((m % 32768) * scale * 2 + 32768) \div 65536
    IN IF q < 0 THEN 0 - r ELSE r

(* String(x, 1) of a pressure held in Pa: returned in tenths of hPa *)
FmtPressure1(pa) == FmtFloat(FloatHpa(pa), 10)

(* String(v, 2) of a battery voltage held in V*10230: V rounded to two     *)
(* decimals, returned in hundredths of a volt.                             *)
FmtVolt2(bv) == (bv * 100 + 5115) \div 10230

----------------------------------------------------------------------------
(* v2.0: enums and configuration (src/unnamed/part_001) *)

PROFILE_PERFORMANCE == 0
PROFILE_BALANCED == 1
PROFILE_ULTRA_LOW_POWER == 2

HEALTH_NORMAL == 0
HEALTH_DEGRADED == 1
HEALTH_CRITICAL == 2

TREND_STABLE == 0
TREND_RISING == 1
TREND_FALLING == 2

(* Voltages in V*10230, so that adcValue/1023.0*4.2 = adcValue*42 is exact *)
BATTERY_VOLTAGE_MULTIPLIER == 42
BATTERY_MIN_VOLTAGE == 30 * 1023
BATTERY_MAX_VOLTAGE == 42 * 1023
BATTERY_CRITICAL_VOLTAGE == 32 * 1023
BATTERY_LOW_VOLTAGE == 34 * 1023

(* consumption[] of estimateRuntimeMinutes, mA per profile *)
consumption == [p \in {0, 1, 2} |-> IF p = 0 THEN 150 ELSE IF p = 1 THEN 100 ELSE 50]

----------------------------------------------------------------------------
(* v2.0: sensor functions *)

(* readDHT(): h is what dht.readHumidity() returned *)
V2_readDHT(sd, h) ==
    IF ~isnan(h) /\ h >= 0 /\ h <= 100
    THEN [sd EXCEPT !.humidity = h, !.dht_valid = TRUE]
    ELSE [sd EXCEPT !.dht_valid = FALSE]

(* Faulty variant: the lower temperature bound taken as inclusive *)
V2_readBMP_InclusiveBound(sd, temp, pressurePa, altitude) ==
    IF ~sd.bmp_valid THEN sd
    ELSE LET s1 == IF ~isnan(temp) /\ temp >= -400 /\ temp < 850
                   THEN [sd EXCEPT !.temperature = temp] ELSE sd
             s2 == IF pressurePa > 0 /\ pressurePa > 30000 /\ pressurePa < 110000
                   THEN [s1 EXCEPT !.pressure = pressurePa] ELSE s1
             s3 == IF ~isnan(altitude) /\ altitude > -5000 /\ altitude < 90000
                   THEN [s2 EXCEPT !.altitude = altitude] ELSE s2
         IN s3

(* readBMP(): temp, pressurePa, altitude are what the BMP180 driver returned *)
V2_readBMP(sd, temp, pressurePa, altitude) ==
    IF ~sd.bmp_valid THEN sd
    ELSE LET s1 == IF ~isnan(temp) /\ temp > -400 /\ temp < 850
                   THEN [sd EXCEPT !.temperature = temp] ELSE sd
             s2 == IF pressurePa > 0 /\ pressurePa > 30000 /\ pressurePa < 110000
                   THEN [s1 EXCEPT !.pressure = pressurePa] ELSE s1
             s3 == IF ~isnan(altitude) /\ altitude > -5000 /\ altitude < 90000
                   THEN [s2 EXCEPT !.altitude = altitude] ELSE s2
         IN s3

(* Single-precision arithmetic of the runtime estimate.  A positive float   *)
(* is held as [m, e], the value m / 2^e with m below 2^24 + 1.              *)

(* The quotient n / d as q + r / d scaled by 2^k, with q of 25 bits *)
RECURSIVE QuotientBits(_, _, _, _)
QuotientBits(q, r, d, k) ==
    IF q >= 2^24 THEN [q |-> q, r |-> r, k |-> k]
    ELSE IF 2 * r >= d THEN QuotientBits(2 * q + 1, 2 * r - d, d, k + 1)
    ELSE QuotientBits(2 * q, 2 * r, d, k + 1)

(* (float)n / (float)d for whole numbers n >= 0, d > 0 below 2^24, rounded  *)
(* to nearest, ties to even                                                 *)
FloatDiv(n, d) ==
    IF n = 0 THEN [m |-> 0, e |-> 0]
    ELSE LET x == QuotientBits(n \div d, n % d, d, 0)
             m == x.q \div 2
             up == x.q % 2 = 1 /\ (x.r # 0 \/ m % 2 = 1)
         IN [m |-> IF up THEN m + 1 ELSE m, e |-> x.k - 1]

(* The number of low bits a product sheds to fit 24 bits *)
RECURSIVE ExcessBits(_)
ExcessBits(p) == IF p < 2^24 THEN 0 ELSE 1 + ExcessBits(p \div 2)

(* (int)(f * c) for a float f and a whole number c below 2^6: the product   *)
(* rounded to a float (to nearest, ties to even), then truncated            *)
FloatMulTrunc(f, c) ==
    LET p == f.m * c
        t == ExcessBits(p)
        low == p % (2^t)
        m0 == p \div (2^t)
        up == t > 0 /\ (2 * low > 2^t \/ (2 * low = 2^t /\ m0 % 2 = 1))
        m == IF up THEN m0 + 1 ELSE m0
    IN IF t >= f.e THEN m * 2^(t - f.e) ELSE m \div (2^(f.e - t))

(* (int)((remainingMah / (float)currentConsumption) * 60), remainingMah a   *)
(* whole number of mAh (battery_percent / 100.0 * 500.0 is computed in      *)
(* double and rounds to the float battery_percent * 5)                      *)
RuntimeMinutes(remainingMah, currentConsumption) ==
    FloatMulTrunc(FloatDiv(remainingMah, currentConsumption), 60)

(* calculateBatteryPercent(float voltage), truncated into the uint8_t       *)
(* battery_percent.  The argument is a float: the float nearest to 4.2 is   *)
(* 4.19999981, below the double 4.2 it is compared with, so a voltage of    *)
(* exactly 4.2 V (adcValue 1023) fails ">= BATTERY_MAX_VOLTAGE" and yields  *)
(* 99.99998, truncated to 99.  No other adcValue lies on a threshold or on  *)
(* a whole percent, so everywhere else exact arithmetic decides.            *)
calculateBatteryPercent(voltage) ==
    IF voltage > BATTERY_MAX_VOLTAGE THEN 100
    ELSE IF voltage <= BATTERY_MIN_VOLTAGE THEN 0
    ELSE IF voltage = BATTERY_MAX_VOLTAGE THEN 99
    ELSE ((voltage - BATTERY_MIN_VOLTAGE) * 100)
             \div (BATTERY_MAX_VOLTAGE - BATTERY_MIN_VOLTAGE)

(* estimateRuntimeMinutes(): (int)((percent / 100 * 500) / consumption * 60) *)
estimateRuntimeMinutes(sd, st) ==
    LET currentConsumption == consumption[st.currentProfile]
    IN IF currentConsumption = 0 THEN 0
       ELSE RuntimeMinutes(sd.battery_percent * 5, currentConsumption)

(* readBattery(): adcValue is what analogRead(BATTERY_PIN) returned *)
V2_readBattery(sd, st, adcValue) ==
    LET s1 == [sd EXCEPT !.battery_voltage = adcValue * BATTERY_VOLTAGE_MULTIPLIER]
        s2 == [s1 EXCEPT !.battery_percent = calculateBatteryPercent(s1.battery_voltage)]
    IN [s2 EXCEPT !.estimated_runtime_min = estimateRuntimeMinutes(s2, st)]

----------------------------------------------------------------------------
(* v2.0: system statistics and intelligence *)

(* updateSystemStats(): heap is ESP.getFreeHeap(), connected is             *)
(* WiFi.status() == WL_CONNECTED, rssi is WiFi.RSSI()                       *)
V2_updateSystemStats(sd, heap, connected, rssi) ==
    LET s1 == [sd EXCEPT !.free_heap = heap,
                         !.heap_percent = (100 - ((heap * 100) \div 81920)) % 256]
    IN IF connected
       THEN [s1 EXCEPT !.wifi_rssi = rssi,
                       !.wifi_quality = IF rssi >= -50 THEN 100
                                        ELSE IF rssi <= -100 THEN 0
                                        ELSE 2 * (rssi + 100)]
       ELSE [s1 EXCEPT !.wifi_rssi = -100, !.wifi_quality = 0]

(* applyPowerProfile(profile) *)
applyPowerProfile(st, profile) == [st EXCEPT !.currentProfile = profile]

(* Faulty variant: the low-memory floor left out of the critical conditions *)
V2_newHealth_NoMemoryFloor(sd) ==
    IF ~sd.bmp_valid \/ sd.battery_voltage < BATTERY_CRITICAL_VOLTAGE
    THEN HEALTH_CRITICAL
    ELSE IF ~sd.dht_valid
            \/ sd.wifi_quality < 30
            \/ sd.battery_voltage < BATTERY_LOW_VOLTAGE
            \/ sd.free_heap < 10000
            \/ sd.cpu_load > 80
    THEN HEALTH_DEGRADED
    ELSE HEALTH_NORMAL

(* Faulty variant: the battery compared with BATTERY_MIN_VOLTAGE for critical *)
V2_newHealth_MinThreshold(sd) ==
    IF ~sd.bmp_valid
       \/ sd.battery_voltage < BATTERY_MIN_VOLTAGE
       \/ sd.free_heap < 5000
    THEN HEALTH_CRITICAL
    ELSE IF ~sd.dht_valid
            \/ sd.wifi_quality < 30
            \/ sd.battery_voltage < BATTERY_LOW_VOLTAGE
            \/ sd.free_heap < 10000
            \/ sd.cpu_load > 80
    THEN HEALTH_DEGRADED
    ELSE HEALTH_NORMAL

(* The classification part of updateSystemHealth() *)
V2_newHealth(sd) ==
    IF ~sd.bmp_valid
       \/ sd.battery_voltage < BATTERY_CRITICAL_VOLTAGE
       \/ sd.free_heap < 5000
    THEN HEALTH_CRITICAL
    ELSE IF ~sd.dht_valid
            \/ sd.wifi_quality < 30
            \/ sd.battery_voltage < BATTERY_LOW_VOLTAGE
            \/ sd.free_heap < 10000
            \/ sd.cpu_load > 80
    THEN HEALTH_DEGRADED
    ELSE HEALTH_NORMAL

(* Faulty variant: the automatic downgrade left out *)
V2_autoAdjust_Forgotten(sd, st) == st

(* Faulty variant: the profile also restored once the battery has recovered *)
V2_autoAdjust_Restores(sd, st) ==
    IF sd.battery_voltage < BATTERY_CRITICAL_VOLTAGE
       /\ st.currentProfile # PROFILE_ULTRA_LOW_POWER
    THEN applyPowerProfile(st, PROFILE_ULTRA_LOW_POWER)
    ELSE IF sd.battery_voltage >= BATTERY_LOW_VOLTAGE
            /\ st.currentProfile = PROFILE_ULTRA_LOW_POWER
    THEN applyPowerProfile(st, PROFILE_BALANCED)
    ELSE st

(* The auto-adjust part of updateSystemHealth(): "Auto-adjust on critical   *)
(* battery"                                                                 *)
V2_autoAdjust(sd, st) ==
    IF sd.battery_voltage < BATTERY_CRITICAL_VOLTAGE
       /\ st.currentProfile # PROFILE_ULTRA_LOW_POWER
    THEN applyPowerProfile(st, PROFILE_ULTRA_LOW_POWER)
    ELSE st

(* updateSystemHealth(): the new sensorData and systemState *)
V2_updateSystemHealth(sd, st) ==
    [sd |-> [sd EXCEPT !.health = V2_newHealth(sd)],
     st |-> V2_autoAdjust(sd, st)]

(* The trend interval of updateWeatherTrend() and                           *)
(* calculateAdvancedMetrics(), in ms                                        *)
TREND_INTERVAL == 3600000

(* 0.5 hPa in units of 2^-15 hPa *)
HalfHpa == 16384

(* Faulty variant: the timestamp of the evaluation not recorded *)
V2_updateWeatherTrend_NoTimestamp(sd, tr, millis) ==
    IF ~IntervalElapsed(millis, tr.lastTrendUpdate, TREND_INTERVAL)
    THEN [sd |-> sd, tr |-> tr]
    ELSE LET pressureChange == FSub(FloatHpa(sd.pressure), FloatHpa(tr.lastPressure))
             s1 == IF tr.lastPressure > 0
                   THEN [sd EXCEPT !.pressure_rate = pressureChange,
                                   !.trend = IF pressureChange > HalfHpa THEN TREND_RISING
                                             ELSE IF pressureChange < 0 - HalfHpa
                                             THEN TREND_FALLING
                                             ELSE TREND_STABLE]
                   ELSE sd
         IN [sd |-> s1, tr |-> [tr EXCEPT !.lastPressure = sd.pressure]]

(* Faulty variant: the thresholds taken as inclusive *)
V2_updateWeatherTrend_Inclusive(sd, tr, millis) ==
    IF ~IntervalElapsed(millis, tr.lastTrendUpdate, TREND_INTERVAL)
    THEN [sd |-> sd, tr |-> tr]
    ELSE LET pressureChange == FSub(FloatHpa(sd.pressure), FloatHpa(tr.lastPressure))
             s1 == IF tr.lastPressure > 0
                   THEN [sd EXCEPT !.pressure_rate = pressureChange,
                                   !.trend = IF pressureChange >= HalfHpa THEN TREND_RISING
                                             ELSE IF pressureChange <= 0 - HalfHpa
                                             THEN TREND_FALLING
                                             ELSE TREND_STABLE]
                   ELSE sd
         IN [sd |-> s1, tr |-> [tr EXCEPT !.lastPressure = sd.pressure,
                                          !.lastTrendUpdate = millis]]

(* Faulty variant: the first evaluation classifies against the zero baseline *)
V2_updateWeatherTrend_NoBaselineTest(sd, tr, millis) ==
    IF ~IntervalElapsed(millis, tr.lastTrendUpdate, TREND_INTERVAL)
    THEN [sd |-> sd, tr |-> tr]
    ELSE LET pressureChange == FSub(FloatHpa(sd.pressure), FloatHpa(tr.lastPressure))
             s1 == [sd EXCEPT !.pressure_rate = pressureChange,
                              !.trend = IF pressureChange > HalfHpa THEN TREND_RISING
                                        ELSE IF pressureChange < 0 - HalfHpa
                                        THEN TREND_FALLING
                                        ELSE TREND_STABLE]
         IN [sd |-> s1, tr |-> [tr EXCEPT !.lastPressure = sd.pressure,
                                          !.lastTrendUpdate = millis]]

(* updateWeatherTrend(): millis is what millis() returns; tr holds the      *)
(* function's statics lastPressure (as the Pa it was stored from) and       *)
(* lastTrendUpdate; pressure_rate is held in units of 2^-15 hPa             *)
V2_updateWeatherTrend(sd, tr, millis) ==
    IF ~IntervalElapsed(millis, tr.lastTrendUpdate, TREND_INTERVAL)
    THEN [sd |-> sd, tr |-> tr]
    ELSE LET pressureChange == FSub(FloatHpa(sd.pressure), FloatHpa(tr.lastPressure))
             s1 == IF tr.lastPressure > 0
                   THEN [sd EXCEPT !.pressure_rate = pressureChange,
                                   !.trend = IF pressureChange > HalfHpa THEN TREND_RISING
                                             ELSE IF pressureChange < 0 - HalfHpa
                                             THEN TREND_FALLING
                                             ELSE TREND_STABLE]
                   ELSE sd
         IN [sd |-> s1, tr |-> [tr EXCEPT !.lastPressure = sd.pressure,
                                          !.lastTrendUpdate = millis]]

(* Faulty variant: the cursor wrapped one slot late *)
V2_updateHistory_LateWrap(h, sd) ==
    LET i == h.index
        h1 == [h EXCEPT !.temperature[i] = sd.temperature,
                        !.pressure[i] = sd.pressure,
                        !.battery[i] = sd.battery_voltage]
        next == (i + 1) % 256
    IN IF next > HISTORY_SIZE
       THEN [h1 EXCEPT !.index = 0, !.full = TRUE]
       ELSE [h1 EXCEPT !.index = next]

(* updateHistory() *)
V2_updateHistory(h, sd) ==
    LET i == h.index
        h1 == [h EXCEPT !.temperature[i] = sd.temperature,
                        !.pressure[i] = sd.pressure,
                        !.battery[i] = sd.battery_voltage]
        next == (i + 1) % 256
    IN IF next >= HISTORY_SIZE
       THEN [h1 EXCEPT !.index = 0, !.full = TRUE]
       ELSE [h1 EXCEPT !.index = next]

(* handleHistory(): the three arrays of the /history reply; order lists,    *)
(* for each value sent, the ordinal of the append that produced it (ghost)  *)
V2_handleHistory(h, seq) ==
    LET count == IF h.full THEN HISTORY_SIZE ELSE h.index
    IN [kind |-> "history",
        temperature |-> [i \in 1..count |-> h.temperature[i - 1]],
        pressure |-> [i \in 1..count |-> FmtPressure1(h.pressure[i - 1])],
        battery |-> [i \in 1..count |-> FmtVolt2(h.battery[i - 1])],
        order |-> [i \in 1..count |-> seq[i - 1]]]

(* String(x, 0) of a value held in tenths: rounded to a whole number *)
FmtRound0(x) == IF x >= 0 THEN (x + 5) \div 10 ELSE 0 - ((5 - x) \div 10)

(* handleData(): the /data snapshot.  Temperature is on a 0.1 grid, so      *)
(* String(t, 1) prints it as held.                                          *)
V2_handleData(sd, st) ==
    [kind |-> "data",
     temperature |-> sd.temperature,
     humidity |-> sd.humidity,
     pressure |-> FmtPressure1(sd.pressure),
     altitude |-> FmtRound0(sd.altitude),
     battery |-> FmtVolt2(sd.battery_voltage),
     battery_percent |-> sd.battery_percent,
     free_heap |-> sd.free_heap,
     cpu_load |-> sd.cpu_load,
     wifi_quality |-> sd.wifi_quality,
     health |-> sd.health,
     trend |-> sd.trend,
     pressure_rate |-> FmtFloat(sd.pressure_rate, 100),
     profile |-> st.currentProfile,
     runtime_text |-> IF sd.estimated_runtime_min > 0
                      THEN <<sd.estimated_runtime_min, "min">> ELSE <<0, "N/A">>,
     dht_valid |-> sd.dht_valid,
     bmp_valid |-> sd.bmp_valid]

(* String::toInt() of a one-character string: a digit gives its value,     *)
(* anything else gives 0.  chars is the text that follows "value": in the   *)
(* body; substring(valuePos + 8, valuePos + 9) is its first character.      *)
Digits == <<"0", "1", "2", "3", "4", "5", "6", "7", "8", "9">>

toInt1(chars) ==
    IF chars = <<>> THEN 0
    ELSE IF \E d \in 1..10 : Digits[d] = chars[1]
    THEN (CHOOSE d \in 1..10 : Digits[d] = chars[1]) - 1
    ELSE 0

(* handleControl(): body is [plain, action, hasValue, value]; the new       *)
(* systemState and the reply                                                *)
V2_handleControl(st, body) ==
    IF ~body.plain
    THEN [st |-> st, reply |-> [kind |-> "control", code |-> 400, text |-> "Bad Request"]]
    ELSE IF body.action = "profile"
    THEN IF body.hasValue /\ toInt1(body.value) >= 0 /\ toInt1(body.value) <= 2
         THEN [st |-> applyPowerProfile(st, toInt1(body.value)),
               reply |-> [kind |-> "control", code |-> 200, text |-> "Profile changed"]]
         ELSE [st |-> st,
               reply |-> [kind |-> "control", code |-> 400, text |-> "Unknown action"]]
    ELSE IF body.action = "oled_toggle"
    THEN [st |-> [st EXCEPT !.oledEnabled = ~st.oledEnabled],
          reply |-> [kind |-> "control", code |-> 200,
                     text |-> IF ~st.oledEnabled THEN "OLED ON" ELSE "OLED OFF"]]
    ELSE [st |-> st,
          reply |-> [kind |-> "control", code |-> 400, text |-> "Unknown action"]]

(* systemState.referencePressure is the float                               *)
(* pressureHpa / pow(1.0 - (KNOWN_ALTITUDE_METERS * 0.0065) / tempK, 5.257) *)
(* of a pressure and a temperature read from the BMP180; it is held as the  *)
(* pair of readings it is computed from.  SetupCalibration is the value     *)
(* setup() leaves.                                                          *)
SetupCalibration == [from |-> "setup"]

Barometric(pressurePa, temp) ==
    [from |-> "calibrate", pressurePa |-> pressurePa, temp |-> temp]

(* handleCalibrate(): pressurePa and temp are what bmp.readPressure() and   *)
(* bmp.readTemperature() return; read tells whether the handler called them *)
V2_handleCalibrate(sd, st, pressurePa, temp) ==
    IF ~sd.bmp_valid
    THEN [st |-> st, read |-> FALSE,
          reply |-> [kind |-> "calibrate", code |-> 500,
                     text |-> <<"BMP180 not available">>]]
    ELSE LET s1 == [st EXCEPT !.referencePressure = Barometric(pressurePa, temp)]
         IN [st |-> s1, read |-> TRUE,
             reply |-> [kind |-> "calibrate", code |-> 200,
                        text |-> <<"Calibrated! Ref pressure: ", s1.referencePressure,
                                   " hPa">>]]

----------------------------------------------------------------------------
(* v1.2 (src/testirockett.ino, Production Firmware v1.2) *)

V12_readDHT(sd, h) ==
    IF ~isnan(h) /\ h >= 0 /\ h <= 100
    THEN [sd EXCEPT !.humidity = h, !.dht_valid = TRUE]
    ELSE [sd EXCEPT !.dht_valid = FALSE]

V12_readBMP(sd, temp, pressurePa, altitude) ==
    IF ~sd.bmp_valid THEN sd
    ELSE LET s1 == IF ~isnan(temp) /\ temp > -400 /\ temp < 850
                   THEN [sd EXCEPT !.temperature = temp] ELSE sd
             s2 == IF pressurePa > 0 /\ pressurePa > 30000 /\ pressurePa < 110000
                   THEN [s1 EXCEPT !.pressure = pressurePa] ELSE s1
             s3 == IF ~isnan(altitude) /\ altitude > -5000 /\ altitude < 90000
                   THEN [s2 EXCEPT !.altitude = altitude] ELSE s2
         IN s3

V12_readBattery(sd, adcValue) ==
    [sd EXCEPT !.battery_voltage = adcValue * BATTERY_VOLTAGE_MULTIPLIER]

(* updateSystemStats(): measured says whether a second has passed since the *)
(* last CPU estimate, load is the cpu_load it then computes                 *)
V12_updateSystemStats(sd, heap, connected, rssi, measured, load) ==
    LET s1 == [sd EXCEPT !.free_heap = heap,
                         !.heap_percent = (100 - ((heap * 100) \div 81920)) % 256]
        s2 == IF measured THEN [s1 EXCEPT !.cpu_load = load] ELSE s1
    IN IF connected
       THEN [s2 EXCEPT !.wifi_rssi = rssi,
                       !.wifi_quality = IF rssi >= -50 THEN 100
                                        ELSE IF rssi <= -100 THEN 0
                                        ELSE 2 * (rssi + 100)]
       ELSE [s2 EXCEPT !.wifi_rssi = -100, !.wifi_quality = 0]

V12_handleData(sd) ==
    [kind |-> "data",
     temperature |-> sd.temperature,
     humidity |-> sd.humidity,
     pressure |-> FmtPressure1(sd.pressure),
     altitude |-> FmtRound0(sd.altitude),
     battery |-> FmtVolt2(sd.battery_voltage),
     free_heap |-> sd.free_heap,
     cpu_load |-> sd.cpu_load,
     wifi_quality |-> sd.wifi_quality,
     dht_valid |-> sd.dht_valid,
     bmp_valid |-> sd.bmp_valid]

----------------------------------------------------------------------------
(* CanSat 3.0 (src/testirockett.ino): the sensor part of loop(), run when   *)
(* MC_LOG_INTERVAL has elapsed.  d is struct MissionData data.                 *)

CanSat_readSensors(d, temp, pressurePa, altitude, h, adcValue) ==
    LET d1 == [d EXCEPT !.temp = temp, !.pressure = pressurePa, !.altitude = altitude]
        d2 == IF ~isnan(h) THEN [d1 EXCEPT !.humidity = h] ELSE d1
    IN [d2 EXCEPT !.batteryV = adcValue * BATTERY_VOLTAGE_MULTIPLIER]

(* String(x) prints two decimals: temperature and altitude are on a 0.1     *)
(* grid, pressure is hPa with two decimals, i.e. Pa                         *)
CanSat_handleData(d) ==
    [kind |-> "data",
     alt |-> d.altitude, press |-> d.pressure, temp |-> d.temp,
     hum |-> d.humidity, bat |-> FmtVolt2(d.batteryV)]

----------------------------------------------------------------------------
(* Mission Control v3.0 (src/unnamed/part_000).  Fields of SensorData that  *)
(* no operation reads back (pressure_sea_level, altitude_raw, wifi_ssid,    *)
(* ip_address, timestamp, uptime) are left out.                             *)

(* readBMP180(): stores whatever the driver returned *)
MC_readBMP180(sd, temp, pressurePa, altitude) ==
    IF ~sd.bmp_valid THEN sd
    ELSE [sd EXCEPT !.temperature_bmp = temp,
                    !.pressure = pressurePa,
                    !.altitude = altitude,
                    !.temperature = temp]

(* readDHT11(): h, t are dht.readHumidity(), dht.readTemperature() *)
MC_readDHT11(sd, h, t) ==
    LET s1 == IF ~isnan(h) /\ h >= 0 /\ h <= 100
              THEN [sd EXCEPT !.humidity = h, !.dht_valid = TRUE]
              ELSE [sd EXCEPT !.dht_valid = FALSE]
    IN IF ~isnan(t) /\ t > -400 /\ t < 800
       THEN [s1 EXCEPT !.temperature_dht = t] ELSE s1

(* readBattery(): percent as in v2.0 (the same float comparison with the    *)
(* double 4.2), consumption fixed at 100 mA                                 *)
MC_readBattery(sd, adcValue) ==
    LET v == adcValue * BATTERY_VOLTAGE_MULTIPLIER
        pct == IF v > BATTERY_MAX_VOLTAGE THEN 100
               ELSE IF v <= BATTERY_MIN_VOLTAGE THEN 0
               ELSE IF v = BATTERY_MAX_VOLTAGE THEN 99
               ELSE ((v - BATTERY_MIN_VOLTAGE) * 100)
                        \div (BATTERY_MAX_VOLTAGE - BATTERY_MIN_VOLTAGE)
    IN [sd EXCEPT !.battery_voltage = v,
                  !.battery_percent = pct,
                  !.battery_valid = (v > 0),
                  !.estimated_runtime_min = RuntimeMinutes(pct * 5, 100)]

(* readSystemStats(): measured says whether a second has passed since the   *)
(* last CPU check, load is the cpu_load it then computes                    *)
MC_readSystemStats(sd, heap, connected, rssi, measured, load) ==
    LET s1 == [sd EXCEPT !.free_heap = heap,
                         !.heap_percent = (100 - ((heap * 100) \div 81920)) % 256]
        s2 == IF connected
              THEN [s1 EXCEPT !.wifi_rssi = rssi,
                              !.wifi_quality = IF rssi >= -50 THEN 100
                                               ELSE IF rssi <= -100 THEN 0
                                               ELSE 2 * (rssi + 100)]
              ELSE [s1 EXCEPT !.wifi_rssi = -100, !.wifi_quality = 0]
    IN IF measured THEN [s2 EXCEPT !.cpu_load = load] ELSE s2

(* Dew point and heat index are kept symbolic: the value computed from      *)
(* temperature T and humidity RH is the pair of its arguments (heat index:  *)
(* with the branch taken).  NoMetric is the 0.0 of the zeroed global.       *)
NoMetric == [T |-> 0, RH |-> 0, form |-> "zero"]

DewPoint(T, RH) == [T |-> T, RH |-> RH, form |-> "magnus"]

HeatIndex(T, RH) ==
    IF FGe(T, 270) THEN [T |-> T, RH |-> RH, form |-> "rothfusz"]
    ELSE [T |-> T, RH |-> 0, form |-> "identity"]

(* calculateAdvancedMetrics(): millis is what millis() returns; tr holds    *)
(* the statics lastPressure (as the Pa it was stored from) and              *)
(* lastTrendCheck (the field lastTrendUpdate); pressure_rate is held in     *)
(* units of 2^-15 hPa                                                       *)
MC_calculateAdvancedMetrics(sd, tr, millis) ==
    LET s1 == IF sd.dht_valid
              THEN [sd EXCEPT !.dew_point = DewPoint(sd.temperature, sd.humidity),
                              !.heat_index = HeatIndex(sd.temperature, sd.humidity)]
              ELSE sd
        evaluate == /\ tr.lastPressure > 0
                    /\ IntervalElapsed(millis, tr.lastTrendUpdate, TREND_INTERVAL)
        rate == FSub(FloatHpa(s1.pressure), FloatHpa(tr.lastPressure))
        s2 == IF evaluate
              THEN [s1 EXCEPT !.pressure_rate = rate,
                              !.weather_trend = IF rate > HalfHpa THEN "RISING"
                                                ELSE IF rate < 0 - HalfHpa THEN "FALLING"
                                                ELSE "STABLE"]
              ELSE s1
        t2 == IF evaluate THEN [tr EXCEPT !.lastTrendUpdate = millis] ELSE tr
    IN IF tr.lastPressure = 0
       THEN [sd |-> [s2 EXCEPT !.weather_trend = "STABLE"],
             tr |-> [t2 EXCEPT !.lastPressure = s2.pressure]]
       ELSE [sd |-> s2, tr |-> t2]

(* updateStatistics(): the averages are kept exactly, as the sum of the     *)
(* folded samples (temp_sum / readingCount is temp_avg); a NaN sample makes *)
(* the average NaN for good                                                 *)
FAdd(a, b) == IF isnan(a) \/ isnan(b) THEN NaN ELSE a + b

MC_updateStatistics(s, sd) ==
    [s EXCEPT
       !.temp_min = IF FLt(sd.temperature, @) THEN sd.temperature ELSE @,
       !.temp_max = IF FGt(sd.temperature, @) THEN sd.temperature ELSE @,
       !.humidity_min = IF FLt(sd.humidity, @) THEN sd.humidity ELSE @,
       !.humidity_max = IF FGt(sd.humidity, @) THEN sd.humidity ELSE @,
       !.pressure_min = IF FLt(sd.pressure, @) THEN sd.pressure ELSE @,
       !.pressure_max = IF FGt(sd.pressure, @) THEN sd.pressure ELSE @,
       !.readingCount = @ + 1,
       !.temp_sum = FAdd(@, sd.temperature),
       !.humidity_sum = FAdd(@, sd.humidity),
       !.pressure_sum = FAdd(@, sd.pressure)]

(* updateHistory() *)
MC_updateHistory(h, sd) ==
    LET i == h.index
        h1 == [h EXCEPT !.temperature[i] = sd.temperature,
                        !.humidity[i] = sd.humidity,
                        !.pressure[i] = sd.pressure,
                        !.altitude[i] = sd.altitude,
                        !.battery[i] = sd.battery_voltage]
        next == (i + 1) % 256
    IN IF next >= HISTORY_SIZE
       THEN [h1 EXCEPT !.index = 0, !.full = TRUE]
       ELSE [h1 EXCEPT !.index = next]

(* handleHistory(); order as for v2.0 *)
MC_handleHistory(h, seq) ==
    LET count == IF h.full THEN HISTORY_SIZE ELSE h.index
    IN [kind |-> "history",
        temperature |-> [i \in 1..count |-> h.temperature[i - 1]],
        humidity |-> [i \in 1..count |-> h.humidity[i - 1]],
        pressure |-> [i \in 1..count |-> FmtPressure1(h.pressure[i - 1])],
        altitude |-> [i \in 1..count |-> h.altitude[i - 1]],
        battery |-> [i \in 1..count |-> FmtVolt2(h.battery[i - 1])],
        order |-> [i \in 1..count |-> seq[i - 1]]]

(* The health classification handleData() computes for the reply *)
MC_dataHealth(sd) ==
    IF ~sd.bmp_valid \/ sd.battery_voltage < BATTERY_CRITICAL_VOLTAGE THEN "CRITICAL"
    ELSE IF ~sd.dht_valid \/ sd.battery_voltage < BATTERY_LOW_VOLTAGE
            \/ sd.wifi_quality < 30
    THEN "WARNING"
    ELSE "NORMAL"

(* The health saveToLog() writes into the record *)
MC_logHealth(sd) ==
    IF ~sd.bmp_valid \/ sd.battery_voltage < BATTERY_CRITICAL_VOLTAGE THEN "CRITICAL"
    ELSE IF ~sd.dht_valid \/ sd.battery_voltage < BATTERY_LOW_VOLTAGE THEN "WARNING"
    ELSE "NORMAL"

(* The status updateOLED() prints in the title line *)
MC_oledStatus(sd) ==
    IF ~sd.bmp_valid \/ sd.battery_voltage < BATTERY_CRITICAL_VOLTAGE THEN "CRIT"
    ELSE IF ~sd.dht_valid \/ sd.battery_voltage < BATTERY_LOW_VOLTAGE THEN "WARN"
    ELSE "OK"

(* updateOLED(): what the call draws *)
MC_updateOLED(sd, st) ==
    IF ~st.oledEnabled THEN [drawn |-> FALSE]
    ELSE [drawn |-> TRUE, status |-> MC_oledStatus(sd),
          temperature |-> sd.temperature, battery_percent |-> sd.battery_percent]

MC_LOG_INTERVAL == 60000

(* Faulty variant: appends on every call *)
MC_saveToLog_Unguarded(st, log, sd, millis, file) ==
    IF ~file.opens THEN [st |-> st, log |-> log]
    ELSE [st |-> [st EXCEPT !.lastLogSave = millis],
          log |-> [lines |-> (IF file.oversize THEN 0 ELSE log.lines) + 1,
                   appended |-> log.appended + 1, last |-> millis,
                   health |-> MC_logHealth(sd)]]

(* saveToLog(): millis is its own millis(); file tells whether SPIFFS.open  *)
(* succeeds and whether the file has outgrown MAX_LOG_SIZE (it is then      *)
(* removed and started anew before the record is written)                   *)
MC_saveToLog(st, log, sd, millis, file) ==
    IF ~IntervalElapsed(millis, st.lastLogSave, MC_LOG_INTERVAL)
    THEN [st |-> st, log |-> log]
    ELSE IF ~file.opens THEN [st |-> st, log |-> log]
    ELSE [st |-> [st EXCEPT !.lastLogSave = millis],
          log |-> [lines |-> (IF file.oversize THEN 0 ELSE log.lines) + 1,
                   appended |-> log.appended + 1, last |-> millis,
                   health |-> MC_logHealth(sd)]]

(* handleData(): String(x, 2) / String(x, 1) print the 0.1-grid values as   *)
(* held                                                                     *)
MC_handleData(sd, st) ==
    [kind |-> "data",
     temperature |-> sd.temperature,
     temperature_bmp |-> sd.temperature_bmp,
     temperature_dht |-> sd.temperature_dht,
     humidity |-> sd.humidity,
     pressure |-> sd.pressure,
     altitude |-> sd.altitude,
     battery |-> sd.battery_voltage,
     battery_percent |-> sd.battery_percent,
     wifi_quality |-> sd.wifi_quality,
     health |-> MC_dataHealth(sd),
     trend |-> sd.weather_trend,
     pressure_rate |-> FmtFloat(sd.pressure_rate, 100),
     profile |-> st.currentProfile,
     total_readings |-> st.totalReadings,
     dew_point |-> sd.dew_point,
     heat_index |-> sd.heat_index,
     runtime_text |-> IF sd.estimated_runtime_min > 0
                      THEN <<sd.estimated_runtime_min, "min">> ELSE <<0, "N/A">>]

(* handleSetProfile(): hasArg is server.hasArg("profile"), arg is           *)
(* server.arg("profile")                                                    *)
MC_handleSetProfile(st, hasArg, arg) ==
    IF ~hasArg
    THEN [st |-> st,
          reply |-> [kind |-> "set_profile", code |-> 400,
                     text |-> <<"Missing profile argument">>]]
    ELSE LET s1 == [st EXCEPT !.currentProfile = arg]
             s2 == IF arg = "Performance" THEN [s1 EXCEPT !.refreshRate = 500]
                   ELSE IF arg = "Balanced" THEN [s1 EXCEPT !.refreshRate = 2000]
                   ELSE IF arg = "Ultra Low Power"
                   THEN [s1 EXCEPT !.refreshRate = 10000, !.oledEnabled = FALSE]
                   ELSE s1
         IN [st |-> s2,
             reply |-> [kind |-> "set_profile", code |-> 200,
                        text |-> <<"Profile set to: ", s2.currentProfile>>]]

(* handleToggleOLED() *)
MC_handleToggleOLED(st) ==
    [st |-> [st EXCEPT !.oledEnabled = ~st.oledEnabled],
     reply |-> [kind |-> "toggle_oled", code |-> 200,
                text |-> <<"OLED display turned ",
                           IF ~st.oledEnabled THEN "ON" ELSE "OFF">>]]

(* handleCalibrate(), as in v2.0 without the EEPROM write *)
MC_handleCalibrate(sd, st, pressurePa, temp) ==
    IF ~sd.bmp_valid
    THEN [st |-> st, read |-> FALSE,
          reply |-> [kind |-> "calibrate", code |-> 500,
                     text |-> <<"BMP180 not available">>]]
    ELSE LET s1 == [st EXCEPT !.referencePressure = Barometric(pressurePa, temp)]
         IN [st |-> s1, read |-> TRUE,
             reply |-> [kind |-> "calibrate", code |-> 200,
                        text |-> <<"Altitude calibrated!", s1.referencePressure>>]]

(* handleStatistics(): the /stats reply *)
MC_handleStatistics(s) == [kind |-> "stats", stats |-> s]

----------------------------------------------------------------------------
(* The boards a behaviour can run on: env fixes, for a whole behaviour,     *)
(* the values each driver call can return and the requests clients send.    *)

(* BMP180 temperature (tenths of a degree): NaN, both range limits, two     *)
(* plausible values                                                         *)
TempReadings == {NaN, -400, 215, 300, 850}

(* BMP180 pressure (Pa): a failed read, both range limits, two plausible    *)
PressureReadings == {0, 30000, 100000, 100100, 110000}

(* BMP180 altitude (tenths of a metre) *)
AltitudeReadings == {NaN, -5000, 200, 90000}

(* DHT11 humidity (percent) *)
HumidityReadings == {NaN, -1, 0, 50, 100, 101}

(* analogRead(A0): 3.1 V, 3.3 V, 3.6 V *)
AdcReadings == {755, 804, 877}

HeapReadings == {4000, 8000, 30000}

(* WiFi: disconnected, or connected with an RSSI *)
WifiReadings == {[connected |-> FALSE, rssi |-> 0], [connected |-> TRUE, rssi |-> -60]}

LoadReadings == {10, 90}

ProfileBody(chars) ==
    [plain |-> TRUE, action |-> "profile", hasValue |-> TRUE, value |-> chars]

V2Requests ==
    {[path |-> "/data"], [path |-> "/history"]}
    \cup {[path |-> "/control", body |-> ProfileBody(<<c>>)] : c \in {"0", "1", "2"}}

(* The longest run of a board, in half hours of millis() *)
HalfHour == TREND_INTERVAL \div 2

MaxHalfHours == 6

(* A board whose sensors always deliver the same plausible values *)
QuietEnv ==
    [bmpBegin |-> {TRUE}, temps |-> {215}, pressures |-> {100000},
     altitudes |-> {200}, hums |-> {50}, dhtTemps |-> {220}, adcs |-> {877},
     heaps |-> {30000}, wifis |-> {[connected |-> TRUE, rssi |-> -60]},
     loads |-> {10}, associates |-> {TRUE}, dts |-> {},
     clockStages |-> {"sensor", "battery", "stats", "history", "oled", "net", "end",
                      "loop"}, until |-> MaxHalfHours * HalfHour, timed |-> FALSE,
     files |-> {[opens |-> TRUE, oversize |-> FALSE]},
     maxAppends |-> 1,
     profileArgs |-> {"Balanced"},
     requests |-> {[path |-> "/data"]},
     bodyTemps |-> {365}, pulses |-> {[heart_rate |-> 70, spo2 |-> 98]},
     configPosts |-> {}]

(* The boards of the sensor-validation properties: every channel returns a good *)
(* or a failed reading, and one channel at a time returns every reading     *)
(* around its range                                                         *)
FailingEnv ==
    [QuietEnv EXCEPT !.bmpBegin = BOOLEAN, !.temps = {NaN, 215},
                     !.pressures = {0, 100000},
                     !.altitudes = {NaN, 200}, !.hums = {NaN, 50}]

SensorEnvs ==
    {[FailingEnv EXCEPT !.temps = TempReadings],
     [FailingEnv EXCEPT !.pressures = PressureReadings],
     [FailingEnv EXCEPT !.altitudes = AltitudeReadings],
     [FailingEnv EXCEPT !.hums = HumidityReadings]}

(* The boards of the statistics properties: a BMP180 and a DHT11 that can fail  *)
(* or return a reading out of range                                         *)
MissionEnv ==
    [QuietEnv EXCEPT !.bmpBegin = BOOLEAN, !.temps = {NaN, 215, 850},
                     !.pressures = {0, 100000}, !.hums = {NaN, 50}]

(* The boards of the trend properties: a pressure that moves by 0.2, 0.5    *)
(* and 1.0 hPa, over runs of MaxHalfHours half hours                        *)
TrendEnv ==
    [QuietEnv EXCEPT !.bmpBegin = BOOLEAN,
                     !.pressures = {99900, 100000, 100020, 100050, 100100},
                     !.dts = {HalfHour}]

(* The boards of the health-classification properties: every health input,     *)
(* runs shorter than the history and trend intervals                        *)
HealthEnv ==
    [QuietEnv EXCEPT !.bmpBegin = BOOLEAN, !.hums = {NaN, 50},
                     !.adcs = AdcReadings, !.heaps = HeapReadings,
                     !.wifis = WifiReadings, !.loads = LoadReadings]

(* The boards of the power-profile properties: a battery at 3.1 V or 3.6 V, a   *)
(* BMP180 that may fail to start, a heap that may run low, every profile    *)
(* command; runs shorter than the trend interval with MaxLoopAppends        *)
(* history ticks                                                            *)
MaxLoopAppends == 1

ProfileEnv ==
    [QuietEnv EXCEPT !.bmpBegin = BOOLEAN, !.adcs = {755, 877},
                     !.heaps = {4000, 30000},
                     !.maxAppends = 1 + MaxLoopAppends,
                     !.requests = V2Requests]

(* The boards of the /control properties: profile commands with values in  *)
(* and out of the recognised set, malformed bodies, the other actions       *)
ControlRequests ==
    {[path |-> "/data"], [path |-> "/history"]}
    \cup {[path |-> "/control", body |-> ProfileBody(v)] :
             v \in {<<"0">>, <<"1">>, <<"2">>, <<"3">>, <<"9">>, <<"2", "5">>,
                    <<"-", "1">>, <<"\"", "1", "\"">>, <<"a">>, <<" ", "1">>, <<>>}}
    \cup {[path |-> "/control",
           body |-> [plain |-> p, action |-> a, hasValue |-> FALSE, value |-> <<>>]] :
             p \in BOOLEAN, a \in {"profile", "oled_toggle", "reboot"}}

ControlEnv == [QuietEnv EXCEPT !.adcs = {755, 877}, !.requests = ControlRequests]

(* The boards of the /set_profile properties: the three profiles by name,   *)
(* names the firmware does not know, a request without the argument         *)
ProfileArgs == {"Performance", "Balanced", "Ultra Low Power", "Turbo", "balanced", ""}

SetProfileEnv == [QuietEnv EXCEPT !.profileArgs = ProfileArgs]

(* The boards of the battery properties: ADC readings for an empty input,   *)
(* half scale, either side of 3.0 V (adcValue 731 and 732), 21 %, 42 %,     *)
(* 50 %, the three readings that end at full scale (4.2 V), and every       *)
(* profile command                                                          *)
BatteryEnv ==
    [QuietEnv EXCEPT !.adcs = {0, 512, 731, 732, 793, 854, 877, 1020, 1022, 1023},
                     !.requests = V2Requests]

(* The boards of the request properties: every route of the web server,    *)
(* a BMP180 that may fail to start and whose readings move                  *)
RequestEnv ==
    [QuietEnv EXCEPT !.bmpBegin = BOOLEAN, !.pressures = {100000, 100100},
                     !.profileArgs = {"Performance", "Balanced"},
                     !.requests = V2Requests \cup {[path |-> "/calibrate"]}]

(* The boards of the flight-log properties: millis() moves by 20 or 40      *)
(* seconds at a time, also in the middle of an iteration, for MaxLogSeconds *)
(* seconds; the log file may fail to open or have outgrown its size         *)
MaxLogSeconds == 140

LogEnv ==
    [QuietEnv EXCEPT !.timed = TRUE, !.dts = {20000, 40000},
                     !.until = MaxLogSeconds * 1000,
                     !.wifis = WifiReadings, !.requests = V2Requests,
                     !.files = {[opens |-> TRUE, oversize |-> FALSE],
                                [opens |-> TRUE, oversize |-> TRUE],
                                [opens |-> FALSE, oversize |-> FALSE]}]

(* The boards of the alarm properties of Testirockett: body temperatures    *)
(* from the DS18B20 error value -127.0 to 85.0, pulse readings on both      *)
(* sides of every alarm limit, and configurations posted to /api/config     *)
(* that set the temperature threshold, the relay switch, both or neither    *)
AlarmEnv ==
    [QuietEnv EXCEPT
        !.bodyTemps = {-1270, 365, 385, 499, 500, 505, 850},
        !.pulses = {[heart_rate |-> 0, spo2 |-> 0], [heart_rate |-> 70, spo2 |-> 98],
                    [heart_rate |-> 130, spo2 |-> 98],
                    [heart_rate |-> 250, spo2 |-> 98],
                    [heart_rate |-> 70, spo2 |-> 85], [heart_rate |-> 70, spo2 |-> 50]},
        !.configPosts =
            [alarm_threshold_temp : {<<>>, <<38>>, <<50>>, <<60>>},
             alarm_threshold_hr : {<<>>}, relay_enabled : {<<>>, <<TRUE>>, <<FALSE>>},
             buzzer_enabled : {<<>>}]]

(* The boards of the WiFi properties: an access point that may answer or    *)
(* not at every poll                                                        *)
WiFiEnv == [QuietEnv EXCEPT !.associates = BOOLEAN]

(* The boards of the scheduler properties: millis() moves by half a second  *)
(* at a time, between iterations and before the stats stage, up to          *)
(* MaxSchedSeconds seconds; a battery at 3.1 V, which makes                 *)
(* updateSystemHealth switch the profile; every profile command             *)
MaxSchedSeconds == 2

SchedEnv ==
    [QuietEnv EXCEPT !.timed = TRUE, !.dts = {500},
                     !.until = MaxSchedSeconds * 1000,
                     !.clockStages = {"sensor", "stats"},
                     !.adcs = {755}, !.maxAppends = HISTORY_SIZE,
                     !.requests = V2Requests]

(* The boards of the history properties: long runs *)
HistoryEnv ==
    [QuietEnv EXCEPT !.maxAppends = MaxAppends,
                     !.requests = {[path |-> "/history"]}]

----------------------------------------------------------------------------
(* State at the end of setup() *)

Slots == 0..(HISTORY_SIZE - 1)

NoData == [temp |-> 0]

NoSensorData == [bmp_valid |-> FALSE, dht_valid |-> FALSE]

NoStats == [readingCount |-> 0]

NoStatics == [lastPressure |-> 0, lastTrendUpdate |-> 0]

(* connectWiFi() has returned *)
WifiDone == [phase |-> "done", attempts |-> 0, led |-> FALSE]

(* The scheduler of a board whose timing the environment decides *)
NoSched == [currentMillis |-> 0]

(* The flight log: the records in the file, the records appended since      *)
(* boot and the timestamp of the latest (ghosts)                            *)
NoLog == [lines |-> 0, appended |-> 0, last |-> 0, health |-> ""]

NoTrendLog == [count |-> 0, at |-> 0, pressure |-> 0]

(* The ghost trendLog after a call of the trend computation that took the   *)
(* statics from tr to tr2 and left the sensor data sd2: the call evaluated  *)
(* exactly when it moved the timestamp                                      *)
LogTrend(log, tr, tr2, sd2) ==
    IF tr2.lastTrendUpdate # tr.lastTrendUpdate
    THEN [count |-> log.count + 1, at |-> tr2.lastTrendUpdate, pressure |-> sd2.pressure]
    ELSE log

(* v2.0: the zeroed global, as setup() leaves it before its initial reads;  *)
(* begun is bmp.begin(), testHumidity the DHT test read                     *)
V2_zeroData(begun, testHumidity) ==
    [temperature |-> 0, humidity |-> 0, pressure |-> 0, altitude |-> 0,
     battery_voltage |-> 0, battery_percent |-> 0,
     dht_valid |-> ~isnan(testHumidity), bmp_valid |-> begun,
     free_heap |-> 0, heap_percent |-> 0, cpu_load |-> 0,
     wifi_rssi |-> 0, wifi_quality |-> 0,
     health |-> HEALTH_NORMAL, trend |-> TREND_STABLE, pressure_rate |-> 0,
     estimated_runtime_min |-> 0]

V2_zeroState ==
    [currentProfile |-> PROFILE_BALANCED, oledEnabled |-> TRUE,
     referencePressure |-> SetupCalibration]

V2_zeroHistory ==
    [temperature |-> [i \in Slots |-> 0], pressure |-> [i \in Slots |-> 0],
     battery |-> [i \in Slots |-> 0], index |-> 0, full |-> FALSE]

(* The initial reads of setup(): readBMP, readDHT, readBattery,             *)
(* updateSystemStats                                                        *)
V2_setupReads(sd, temp, pressurePa, altitude, h, adcValue, heap, wifi) ==
    V2_updateSystemStats(
        V2_readBattery(V2_readDHT(V2_readBMP(sd, temp, pressurePa, altitude), h),
                       V2_zeroState, adcValue),
        heap, wifi.connected, wifi.rssi)

(* A v2.0 board at millis() = millis, with the scheduler timestamps sc and   *)
(* the trend statics tr                                                     *)
V2Running(e, millis, sc, tr) ==
    /\ firmware = "v2.0"
    /\ env = e
    /\ \E begun \in e.bmpBegin, testHumidity \in e.hums, temp \in e.temps,
          pressurePa \in e.pressures, altitude \in e.altitudes, h \in e.hums,
          adcValue \in e.adcs, heap \in e.heaps, wifi \in e.wifis :
          /\ sensorData = V2_setupReads(V2_zeroData(begun, testHumidity), temp,
                                        pressurePa, altitude, h, adcValue, heap, wifi)
          /\ initOk = [bmp |-> begun, dht |-> ~isnan(testHumidity)]
    /\ systemState = V2_zeroState
    /\ history = V2_updateHistory(V2_zeroHistory, sensorData)
    /\ histSeq = [i \in Slots |-> IF i = 0 THEN 1 ELSE 0]
    /\ appends = 1
    /\ trendStatics = tr
    /\ trendLog = NoTrendLog
    /\ stats = NoStats
    /\ data = NoData
    /\ stage = "sensor"
    /\ driver = NoInput
    /\ autoDowngraded = FALSE
    /\ now = millis
    /\ sched = sc
    /\ flightLog = NoLog
    /\ link = WifiDone
    /\ reply = NoReply

V2_zeroSched ==
    [currentMillis |-> 0, profile |-> PROFILE_BALANCED,
     lastSensorRead |-> 0, lastOLEDUpdate |-> 0, lastBatteryRead |-> 0,
     lastSystemStats |-> 0, lastHistoryUpdate |-> 0]

V2Init(e) ==
    V2Running(e, 0, IF e.timed THEN V2_zeroSched ELSE NoSched, NoStatics)

(* A v2.0 board 49.7 days after boot, 3 seconds before millis() wraps: the  *)
(* sensor, battery, stats and OLED stages ran in the iteration that has     *)
(* just ended, the history stage 56 seconds earlier, the trend was          *)
(* evaluated 3.5 seconds less than an hour earlier                          *)
UptimeSched ==
    [currentMillis |-> -3000, profile |-> PROFILE_BALANCED,
     lastSensorRead |-> -3000, lastOLEDUpdate |-> -3000, lastBatteryRead |-> -3000,
     lastSystemStats |-> -3000, lastHistoryUpdate |-> -59000]

UptimeStatics == [lastPressure |-> 100000, lastTrendUpdate |-> -3599500]

V2Uptime(e) == V2Running(e, -3000, UptimeSched, UptimeStatics)

----------------------------------------------------------------------------
(* v2.0: loop().  One iteration passes the stages sensor, battery, stats,   *)
(* history, oled, net, end in this order; a stage runs its subsystem when   *)
(* the subsystem's interval has elapsed (due).  On a board whose timing is  *)
(* tracked (env.timed) due is the test of the code on the timestamps in     *)
(* sched; on the other boards the model leaves it to the environment and    *)
(* sched stands still.                                                      *)

(* The stage that follows stage s in a loop whose stages are order; the     *)
(* first stage of the next iteration follows the last                       *)
After(order, s) ==
    LET i == CHOOSE k \in 1..Len(order) : order[k] = s
    IN order[(i % Len(order)) + 1]

V2_loop_NetBeforeOLED ==
    <<"sensor", "battery", "stats", "history", "net", "oled", "end">>

(* The stages of one iteration of loop(), in program order: the sensor,     *)
(* battery, stats, history and OLED stages, server.handleClient(), and the  *)
(* CPU load bookkeeping                                                     *)
V2_loop == <<"sensor", "battery", "stats", "history", "oled", "net", "end">>

HISTORY_INTERVAL == 60000

profiles ==
    (PROFILE_PERFORMANCE :>
         [sensorInterval |-> 1000, oledInterval |-> 500,
          batteryInterval |-> 3000, statsInterval |-> 500])
    @@ (PROFILE_BALANCED :>
         [sensorInterval |-> 2000, oledInterval |-> 1000,
          batteryInterval |-> 5000, statsInterval |-> 1000])
    @@ (PROFILE_ULTRA_LOW_POWER :>
         [sensorInterval |-> 5000, oledInterval |-> 2000,
          batteryInterval |-> 10000, statsInterval |-> 2000])

(* Faulty variant: the interval of the profile active now *)
V2_interval_Live(sc, st, name) == profiles[st.currentProfile][name]

(* profile.sensorInterval etc.: profile is bound at the start of the        *)
(* iteration                                                                *)
V2_interval(sc, st, name) == profiles[sc.profile][name]

(* The start of an iteration: currentMillis = millis(), profile =           *)
(* profiles[systemState.currentProfile]                                     *)
V2_loopStart(sc, st, millis) ==
    [sc EXCEPT !.currentMillis = millis, !.profile = st.currentProfile]

(* The values the test of a stage can take *)
Due(sc, lastRun, interval) ==
    IF env.timed THEN {IntervalElapsed(sc.currentMillis, sc[lastRun], interval)}
    ELSE BOOLEAN

(* lastRun = currentMillis of a stage that ran *)
Stamp(sc, lastRun, due) ==
    IF env.timed /\ due THEN [sc EXCEPT ![lastRun] = sc.currentMillis] ELSE sc

V2LoopSensor ==
    /\ firmware = "v2.0" /\ stage = "sensor"
    /\ LET sc == IF env.timed THEN V2_loopStart(sched, systemState, now) ELSE sched
       IN \E due \in Due(sc, "lastSensorRead",
                         V2_interval(sc, systemState, "sensorInterval")),
             temp \in env.temps, pressurePa \in env.pressures,
             altitude \in env.altitudes, h \in env.hums :
             /\ IF due
                THEN /\ sensorData' = V2_readDHT(
                                         V2_readBMP(sensorData, temp, pressurePa,
                                                    altitude), h)
                     /\ driver' = [kind |-> "sensors", temp |-> temp,
                                   pressurePa |-> pressurePa,
                                   altitude |-> altitude, h |-> h]
                ELSE /\ sensorData' = sensorData
                     /\ driver' = NoInput
             /\ sched' = Stamp(sc, "lastSensorRead", due)
    /\ stage' = After(V2_loop, stage)
    /\ reply' = NoReply
    /\ UNCHANGED <<firmware, env, link, flightLog, now, initOk, trendLog, autoDowngraded, history, histSeq, appends, systemState,
                   trendStatics, stats, data>>

V2LoopBattery ==
    /\ firmware = "v2.0" /\ stage = "battery"
    /\ \E due \in Due(sched, "lastBatteryRead",
                      V2_interval(sched, systemState, "batteryInterval")),
          adcValue \in env.adcs :
          /\ IF due
             THEN /\ sensorData' = V2_readBattery(sensorData, systemState, adcValue)
                  /\ driver' = [kind |-> "battery", adcValue |-> adcValue]
             ELSE /\ sensorData' = sensorData
                  /\ driver' = NoInput
          /\ sched' = Stamp(sched, "lastBatteryRead", due)
    /\ stage' = After(V2_loop, stage)
    /\ reply' = NoReply
    /\ UNCHANGED <<firmware, env, link, flightLog, now, initOk, trendLog, autoDowngraded, history, histSeq, appends, systemState,
                   trendStatics, stats, data>>

(* updateSystemStats(); updateSystemHealth(); updateWeatherTrend() *)
V2_statsTick(sd, st, tr, heap, wifi, millis) ==
    LET s1 == V2_updateSystemStats(sd, heap, wifi.connected, wifi.rssi)
        r2 == V2_updateSystemHealth(s1, st)
        r3 == V2_updateWeatherTrend(r2.sd, tr, millis)
    IN [sd |-> r3.sd, st |-> r2.st, tr |-> r3.tr]

V2LoopStats ==
    /\ firmware = "v2.0" /\ stage = "stats"
    /\ \E due \in Due(sched, "lastSystemStats",
                      V2_interval(sched, systemState, "statsInterval")),
          heap \in env.heaps, wifi \in env.wifis :
          /\ sched' = Stamp(sched, "lastSystemStats", due)
          /\ IF due
             THEN LET r == V2_statsTick(sensorData, systemState, trendStatics,
                                        heap, wifi, now)
                  IN /\ sensorData' = r.sd
                     /\ systemState' = r.st
                     /\ trendStatics' = r.tr
                     /\ trendLog' = LogTrend(trendLog, trendStatics, r.tr, r.sd)
                     /\ autoDowngraded' =
                            (autoDowngraded
                             \/ r.st.currentProfile # systemState.currentProfile)
                     /\ driver' = [kind |-> "stats",
                                   healthBefore |-> sensorData.health,
                                   profileBefore |-> systemState.currentProfile]
             ELSE /\ UNCHANGED <<sensorData, systemState, trendStatics, trendLog,
                                  autoDowngraded>>
                  /\ driver' = NoInput
    /\ stage' = After(V2_loop, stage)
    /\ reply' = NoReply
    /\ UNCHANGED <<firmware, env, link, flightLog, now, initOk, history, histSeq, appends, stats, data>>

V2LoopHistory ==
    /\ firmware = "v2.0" /\ stage = "history"
    /\ \E due \in Due(sched, "lastHistoryUpdate", HISTORY_INTERVAL) :
          IF due /\ appends < env.maxAppends
          THEN /\ history' = V2_updateHistory(history, sensorData)
               /\ histSeq' = [histSeq EXCEPT ![history.index] = appends + 1]
               /\ appends' = appends + 1
               /\ driver' = [kind |-> "history"]
               /\ sched' = Stamp(sched, "lastHistoryUpdate", due)
          ELSE /\ UNCHANGED <<history, histSeq, appends, sched>>
               /\ driver' = NoInput
    /\ stage' = After(V2_loop, stage)
    /\ reply' = NoReply
    /\ UNCHANGED <<firmware, env, link, flightLog, now, initOk, trendLog, autoDowngraded, sensorData, systemState, trendStatics, stats, data>>

(* updateOLED() draws and changes no program state *)
V2LoopOLED ==
    /\ firmware = "v2.0" /\ stage = "oled"
    /\ \E due \in Due(sched, "lastOLEDUpdate",
                      V2_interval(sched, systemState, "oledInterval")) :
          /\ driver' = IF due THEN [kind |-> "oled"] ELSE NoInput
          /\ sched' = Stamp(sched, "lastOLEDUpdate", due)
    /\ stage' = After(V2_loop, stage)
    /\ reply' = NoReply
    /\ UNCHANGED <<firmware, env, link, flightLog, now, initOk, trendLog, autoDowngraded, sensorData, history, histSeq, appends,
                   systemState, trendStatics, stats, data>>

(* server.handleClient() with no request pending *)
V2NoRequest ==
    /\ firmware = "v2.0" /\ stage = "net"
    /\ stage' = After(V2_loop, stage)
    /\ driver' = NoInput
    /\ reply' = NoReply
    /\ UNCHANGED <<firmware, env, link, sched, flightLog, now, initOk, trendLog, autoDowngraded, sensorData, history, histSeq, appends,
                   systemState, trendStatics, stats, data>>

V2HandleData ==
    /\ firmware = "v2.0" /\ stage = "net"
    /\ [path |-> "/data"] \in env.requests
    /\ reply' = V2_handleData(sensorData, systemState)
    /\ stage' = After(V2_loop, stage)
    /\ driver' = NoInput
    /\ UNCHANGED <<firmware, env, link, sched, flightLog, now, initOk, trendLog, autoDowngraded, sensorData, history, histSeq, appends,
                   systemState, trendStatics, stats, data>>

V2HandleHistory ==
    /\ firmware = "v2.0" /\ stage = "net"
    /\ [path |-> "/history"] \in env.requests
    /\ reply' = V2_handleHistory(history, histSeq)
    /\ stage' = After(V2_loop, stage)
    /\ driver' = NoInput
    /\ UNCHANGED <<firmware, env, link, sched, flightLog, now, initOk, trendLog, autoDowngraded, sensorData, history, histSeq, appends,
                   systemState, trendStatics, stats, data>>

V2HandleControl ==
    /\ firmware = "v2.0" /\ stage = "net"
    /\ \E req \in {r \in env.requests : r.path = "/control"} :
          LET r == V2_handleControl(systemState, req.body)
          IN /\ systemState' = r.st
             /\ reply' = r.reply
             /\ driver' = [kind |-> "control", body |-> req.body]
             /\ autoDowngraded' =
                    (autoDowngraded /\ ~(req.body.plain /\ req.body.action = "profile"
                                         /\ r.reply.code = 200))
    /\ stage' = After(V2_loop, stage)
    /\ UNCHANGED <<firmware, env, link, sched, flightLog, now, initOk, trendLog, sensorData, history, histSeq, appends,
                   trendStatics, stats, data>>

V2HandleCalibrate ==
    /\ firmware = "v2.0" /\ stage = "net"
    /\ [path |-> "/calibrate"] \in env.requests
    /\ \E pressurePa \in env.pressures, temp \in env.temps :
          LET r == V2_handleCalibrate(sensorData, systemState, pressurePa, temp)
          IN /\ systemState' = r.st
             /\ reply' = r.reply
             /\ driver' = IF r.read
                           THEN [kind |-> "calibrate", pressurePa |-> pressurePa,
                                 temp |-> temp]
                           ELSE NoInput
    /\ stage' = After(V2_loop, stage)
    /\ UNCHANGED <<firmware, env, link, sched, flightLog, now, initOk, trendLog, autoDowngraded, sensorData, history,
                   histSeq, appends, trendStatics, stats, data>>

(* The end of the iteration: updateCPULoad() publishes a new cpu_load once  *)
(* a second (measured), load being the smoothed estimate                    *)
V2_updateCPULoad(sd, measured, load) ==
    IF measured THEN [sd EXCEPT !.cpu_load = load] ELSE sd

V2LoopEnd ==
    /\ firmware = "v2.0" /\ stage = "end"
    /\ \E measured \in BOOLEAN, load \in env.loads :
          sensorData' = V2_updateCPULoad(sensorData, measured, load)
    /\ stage' = After(V2_loop, stage)
    /\ driver' = NoInput
    /\ reply' = NoReply
    /\ UNCHANGED <<firmware, env, link, sched, flightLog, now, initOk, trendLog, autoDowngraded, history, histSeq, appends, systemState,
                   trendStatics, stats, data>>

V2Next ==
    \/ V2LoopSensor \/ V2LoopBattery \/ V2LoopStats \/ V2LoopHistory
    \/ V2LoopOLED \/ V2NoRequest \/ V2HandleData \/ V2HandleHistory
    \/ V2HandleControl \/ V2LoopEnd

----------------------------------------------------------------------------
(* millis() advances *)
TimePasses ==
    /\ \E dt \in env.dts :
          /\ stage \in env.clockStages
          /\ now + dt <= env.until
          /\ now' = now + dt
    /\ driver' = NoInput
    /\ reply' = NoReply
    /\ UNCHANGED <<firmware, env, link, sched, flightLog, initOk, trendLog, autoDowngraded, sensorData, history,
                   histSeq, appends, systemState, trendStatics, stats, data, stage>>

----------------------------------------------------------------------------
(* v1.2: state at the end of setup() and the subsystems of loop() *)

V12_zeroData(begun, testHumidity) ==
    [temperature |-> 0, humidity |-> 0, pressure |-> 0, altitude |-> 0,
     battery_voltage |-> 0, dht_valid |-> ~isnan(testHumidity), bmp_valid |-> begun,
     free_heap |-> 0, heap_percent |-> 0, cpu_load |-> 0,
     wifi_rssi |-> 0, wifi_quality |-> 0]

V12Running(e, millis, sc) ==
    /\ firmware = "v1.2"
    /\ env = e
    /\ \E begun \in e.bmpBegin, testHumidity \in e.hums, temp \in e.temps,
          pressurePa \in e.pressures, altitude \in e.altitudes, h \in e.hums,
          adcValue \in e.adcs, heap \in e.heaps, wifi \in e.wifis :
          /\ sensorData = V12_updateSystemStats(
                              V12_readBattery(
                                  V12_readDHT(
                                      V12_readBMP(V12_zeroData(begun, testHumidity),
                                                  temp, pressurePa, altitude), h),
                                  adcValue),
                              heap, wifi.connected, wifi.rssi, FALSE, 0)
          /\ initOk = [bmp |-> begun, dht |-> ~isnan(testHumidity)]
    /\ systemState = [referencePressure |-> 101325]
    /\ history = [index |-> 0, full |-> FALSE]
    /\ histSeq = [i \in Slots |-> 0]
    /\ appends = 0
    /\ trendStatics = NoStatics
    /\ trendLog = NoTrendLog
    /\ stats = NoStats
    /\ data = NoData
    /\ stage = IF e.timed THEN "sensor" ELSE "loop"
    /\ driver = NoInput
    /\ autoDowngraded = FALSE
    /\ now = millis
    /\ sched = sc
    /\ flightLog = NoLog
    /\ link = WifiDone
    /\ reply = NoReply

(* The timing variables as declared *)
V12_zeroSched ==
    [currentMillis |-> 0, lastSensorRead |-> 0, lastOLEDUpdate |-> 0,
     lastBatteryRead |-> 0, lastSystemStats |-> 0]

V12Init(e) == V12Running(e, 0, IF e.timed THEN V12_zeroSched ELSE NoSched)

(* A v1.2 board 49.7 days after boot, 3 seconds before millis() wraps:      *)
(* every stage ran in the iteration that has just ended                     *)
V12_uptimeSched ==
    [currentMillis |-> -3000, lastSensorRead |-> -3000, lastOLEDUpdate |-> -3000,
     lastBatteryRead |-> -3000, lastSystemStats |-> -3000]

V12Uptime(e) == V12Running(e, -3000, V12_uptimeSched)

(* readBMP(); readDHT() of a due sensor stage *)
V12SensorTick ==
    /\ firmware = "v1.2"
    /\ \E temp \in env.temps, pressurePa \in env.pressures,
          altitude \in env.altitudes, h \in env.hums :
          /\ sensorData' = V12_readDHT(
                               V12_readBMP(sensorData, temp, pressurePa, altitude), h)
          /\ driver' = [kind |-> "sensors", temp |-> temp, pressurePa |-> pressurePa,
                        altitude |-> altitude, h |-> h]
    /\ reply' = NoReply
    /\ UNCHANGED <<firmware, env, link, sched, flightLog, now, initOk, trendLog, autoDowngraded, history, histSeq, appends, systemState,
                   trendStatics, stats, data, stage>>

(* readBattery(); updateSystemStats() of the battery and stats stages *)
V12SystemTick ==
    /\ firmware = "v1.2"
    /\ \E adcValue \in env.adcs, heap \in env.heaps, wifi \in env.wifis,
          measured \in BOOLEAN, load \in env.loads :
          sensorData' = V12_updateSystemStats(V12_readBattery(sensorData, adcValue),
                            heap, wifi.connected, wifi.rssi, measured, load)
    /\ driver' = [kind |-> "system"]
    /\ reply' = NoReply
    /\ UNCHANGED <<firmware, env, link, sched, flightLog, now, initOk, trendLog, autoDowngraded, history, histSeq, appends, systemState,
                   trendStatics, stats, data, stage>>

V12HandleData ==
    /\ firmware = "v1.2"
    /\ reply' = V12_handleData(sensorData)
    /\ driver' = NoInput
    /\ UNCHANGED <<firmware, env, link, sched, flightLog, now, initOk, trendLog, autoDowngraded, sensorData, history, histSeq, appends,
                   systemState, trendStatics, stats, data, stage>>

(* loop() on a board whose timing is tracked: one iteration passes the     *)
(* stages in program order; currentMillis is read at its start              *)
SENSOR_READ_INTERVAL == 2000

OLED_UPDATE_INTERVAL == 1000

BATTERY_READ_INTERVAL == 5000

SYSTEM_STATS_INTERVAL == 1000

V12_loop == <<"sensor", "battery", "stats", "oled", "net">>

V12LoopSensor ==
    /\ firmware = "v1.2" /\ stage = "sensor"
    /\ LET sc == [sched EXCEPT !.currentMillis = now]
       IN \E due \in Due(sc, "lastSensorRead", SENSOR_READ_INTERVAL),
             temp \in env.temps, pressurePa \in env.pressures,
             altitude \in env.altitudes, h \in env.hums :
             /\ IF due
                THEN /\ sensorData' = V12_readDHT(
                                          V12_readBMP(sensorData, temp, pressurePa,
                                                      altitude), h)
                     /\ driver' = [kind |-> "sensors", temp |-> temp,
                                   pressurePa |-> pressurePa,
                                   altitude |-> altitude, h |-> h]
                ELSE /\ sensorData' = sensorData
                     /\ driver' = NoInput
             /\ sched' = Stamp(sc, "lastSensorRead", due)
    /\ stage' = After(V12_loop, stage)
    /\ reply' = NoReply
    /\ UNCHANGED <<firmware, env, link, flightLog, now, initOk, trendLog, autoDowngraded,
                   history, histSeq, appends, systemState, trendStatics, stats, data>>

V12LoopBattery ==
    /\ firmware = "v1.2" /\ stage = "battery"
    /\ \E due \in Due(sched, "lastBatteryRead", BATTERY_READ_INTERVAL),
          adcValue \in env.adcs :
          /\ IF due
             THEN /\ sensorData' = V12_readBattery(sensorData, adcValue)
                  /\ driver' = [kind |-> "battery", adcValue |-> adcValue]
             ELSE /\ sensorData' = sensorData
                  /\ driver' = NoInput
          /\ sched' = Stamp(sched, "lastBatteryRead", due)
    /\ stage' = After(V12_loop, stage)
    /\ reply' = NoReply
    /\ UNCHANGED <<firmware, env, link, flightLog, now, initOk, trendLog, autoDowngraded,
                   history, histSeq, appends, systemState, trendStatics, stats, data>>

V12LoopStats ==
    /\ firmware = "v1.2" /\ stage = "stats"
    /\ \E due \in Due(sched, "lastSystemStats", SYSTEM_STATS_INTERVAL),
          heap \in env.heaps, wifi \in env.wifis, measured \in BOOLEAN,
          load \in env.loads :
          /\ IF due
             THEN /\ sensorData' = V12_updateSystemStats(sensorData, heap,
                                        wifi.connected, wifi.rssi, measured, load)
                  /\ driver' = [kind |-> "stats"]
             ELSE /\ sensorData' = sensorData
                  /\ driver' = NoInput
          /\ sched' = Stamp(sched, "lastSystemStats", due)
    /\ stage' = After(V12_loop, stage)
    /\ reply' = NoReply
    /\ UNCHANGED <<firmware, env, link, flightLog, now, initOk, trendLog, autoDowngraded,
                   history, histSeq, appends, systemState, trendStatics, stats, data>>

V12LoopOLED ==
    /\ firmware = "v1.2" /\ stage = "oled"
    /\ \E due \in Due(sched, "lastOLEDUpdate", OLED_UPDATE_INTERVAL) :
          /\ driver' = IF due THEN [kind |-> "oled"] ELSE NoInput
          /\ sched' = Stamp(sched, "lastOLEDUpdate", due)
    /\ stage' = After(V12_loop, stage)
    /\ reply' = NoReply
    /\ UNCHANGED <<firmware, env, link, flightLog, now, initOk, trendLog, autoDowngraded,
                   sensorData, history, histSeq, appends, systemState, trendStatics,
                   stats, data>>

(* server.handleClient(); yield(): a pending request for /data is served *)
V12LoopNet ==
    /\ firmware = "v1.2" /\ stage = "net"
    /\ \/ reply' = NoReply
       \/ /\ [path |-> "/data"] \in env.requests
          /\ reply' = V12_handleData(sensorData)
    /\ stage' = After(V12_loop, stage)
    /\ driver' = NoInput
    /\ UNCHANGED <<firmware, env, link, sched, flightLog, now, initOk, trendLog,
                   autoDowngraded, sensorData, history, histSeq, appends, systemState,
                   trendStatics, stats, data>>

----------------------------------------------------------------------------
(* CanSat 3.0: data is a zeroed global; setup() reads no sensor into it *)

CanSatInit(e) ==
    /\ firmware = "cansat"
    /\ env = e
    /\ data = [temp |-> 0, humidity |-> 0, pressure |-> 0, altitude |-> 0,
               batteryV |-> 0]
    /\ sensorData = NoSensorData
    /\ systemState = [referencePressure |-> 101325]
    /\ history = [index |-> 0, full |-> FALSE]
    /\ histSeq = [i \in Slots |-> 0]
    /\ appends = 0
    /\ trendStatics = NoStatics
    /\ trendLog = NoTrendLog
    /\ initOk = [bmp |-> TRUE, dht |-> TRUE]
    /\ stats = NoStats
    /\ stage = "loop"
    /\ driver = NoInput
    /\ autoDowngraded = FALSE
    /\ now = 0
    /\ sched = NoSched
    /\ flightLog = NoLog
    /\ link = WifiDone
    /\ reply = NoReply

(* loop() when MC_LOG_INTERVAL has elapsed *)
CanSatLogTick ==
    /\ firmware = "cansat"
    /\ \E temp \in env.temps, pressurePa \in env.pressures,
          altitude \in env.altitudes, h \in env.hums, adcValue \in env.adcs :
          /\ data' = CanSat_readSensors(data, temp, pressurePa, altitude, h, adcValue)
          /\ driver' = [kind |-> "sensors", temp |-> temp, pressurePa |-> pressurePa,
                        altitude |-> altitude, h |-> h]
    /\ reply' = NoReply
    /\ UNCHANGED <<firmware, env, link, sched, flightLog, now, initOk, trendLog, autoDowngraded, sensorData, history, histSeq, appends,
                   systemState, trendStatics, stats, stage>>

CanSatHandleData ==
    /\ firmware = "cansat"
    /\ reply' = CanSat_handleData(data)
    /\ driver' = NoInput
    /\ UNCHANGED <<firmware, env, link, sched, flightLog, now, initOk, trendLog, autoDowngraded, sensorData, history, histSeq, appends,
                   systemState, trendStatics, stats, data, stage>>

----------------------------------------------------------------------------
(* Mission Control v3.0: state at the end of setup() and the subsystems of  *)
(* loop()                                                                   *)

(* Caps on the counters totalReadings and readingCount *)
MaxReadings == 3

MaxStatsTicks == 3

MC_zeroData(begun, testHumidity) ==
    [temperature |-> 0, temperature_bmp |-> 0, temperature_dht |-> 0,
     humidity |-> 0, pressure |-> 0, altitude |-> 0,
     battery_voltage |-> 0, battery_percent |-> 0, battery_valid |-> FALSE,
     dht_valid |-> ~isnan(testHumidity), bmp_valid |-> begun,
     free_heap |-> 0, heap_percent |-> 0, cpu_load |-> 0,
     wifi_rssi |-> 0, wifi_quality |-> 0,
     weather_trend |-> "", pressure_rate |-> 0, estimated_runtime_min |-> 0,
     dew_point |-> NoMetric, heat_index |-> NoMetric]

MC_zeroState ==
    [oledEnabled |-> TRUE, currentProfile |-> "Balanced", totalReadings |-> 0,
     refreshRate |-> 2000, referencePressure |-> SetupCalibration,
     lastLogSave |-> 0]

MC_zeroStats ==
    [temp_min |-> 9990, temp_max |-> -9990, temp_sum |-> 0,
     humidity_min |-> 999, humidity_max |-> -999, humidity_sum |-> 0,
     pressure_min |-> 999900, pressure_max |-> -999900, pressure_sum |-> 0,
     readingCount |-> 0]

MC_zeroHistory ==
    [temperature |-> [i \in Slots |-> 0], humidity |-> [i \in Slots |-> 0],
     pressure |-> [i \in Slots |-> 0], altitude |-> [i \in Slots |-> 0],
     battery |-> [i \in Slots |-> 0], index |-> 0, full |-> FALSE]

MC_zeroSched ==
    [currentMillis |-> 0, lastSensorRead |-> 0, lastOLEDUpdate |-> 0,
     lastStatsUpdate |-> 0, lastHistoryUpdate |-> 0]

(* readAllSensors(): in is the record of what the drivers return *)
MC_readAllSensors(sd, st, tr, in, millis) ==
    LET s1 == MC_readBMP180(sd, in.temp, in.pressurePa, in.altitude)
        s2 == MC_readDHT11(s1, in.h, in.t)
        s3 == MC_readBattery(s2, in.adcValue)
        s4 == MC_readSystemStats(s3, in.heap, in.wifi.connected, in.wifi.rssi,
                                 in.measured, in.load)
        r5 == MC_calculateAdvancedMetrics(s4, tr, millis)
    IN [sd |-> r5.sd, tr |-> r5.tr,
        st |-> [st EXCEPT !.totalReadings = @ + 1]]

MC_inputs(e) ==
    [kind : {"sensors"}, temp : e.temps, pressurePa : e.pressures,
     altitude : e.altitudes, h : e.hums, t : e.dhtTemps, adcValue : e.adcs,
     heap : e.heaps, wifi : e.wifis, measured : BOOLEAN, load : e.loads]

MCInit(e) ==
    /\ firmware = "mc3.0"
    /\ env = e
    /\ \E begun \in e.bmpBegin, testHumidity \in e.hums, in \in MC_inputs(e) :
          LET r == MC_readAllSensors(MC_zeroData(begun, testHumidity), MC_zeroState,
                                     NoStatics, in, 0)
          IN /\ sensorData = r.sd
             /\ systemState = r.st
             /\ trendStatics = r.tr
             /\ initOk = [bmp |-> begun, dht |-> ~isnan(testHumidity)]
    /\ trendLog = NoTrendLog
    /\ stats = MC_updateStatistics(MC_zeroStats, sensorData)
    /\ history = MC_updateHistory(MC_zeroHistory, sensorData)
    /\ histSeq = [i \in Slots |-> IF i = 0 THEN 1 ELSE 0]
    /\ appends = 1
    /\ data = NoData
    /\ stage = IF e.timed THEN "sensor" ELSE "loop"
    /\ driver = NoInput
    /\ autoDowngraded = FALSE
    /\ now = 0
    /\ sched = IF e.timed THEN MC_zeroSched ELSE NoSched
    /\ flightLog = NoLog
    /\ link = WifiDone
    /\ reply = NoReply

(* readAllSensors() of a due sensor stage *)
MCSensorTick ==
    /\ firmware = "mc3.0"
    /\ systemState.totalReadings < MaxReadings
    /\ \E in \in MC_inputs(env) :
          LET r == MC_readAllSensors(sensorData, systemState, trendStatics, in, now)
          IN /\ sensorData' = r.sd
             /\ systemState' = r.st
             /\ trendStatics' = r.tr
             /\ trendLog' = LogTrend(trendLog, trendStatics, r.tr, r.sd)
             /\ driver' = in
    /\ reply' = NoReply
    /\ UNCHANGED <<firmware, env, link, sched, flightLog, now, initOk, autoDowngraded, history, histSeq, appends,
                   stats, data, stage>>

(* updateStatistics() of a due stats stage *)
MCStatsTick ==
    /\ firmware = "mc3.0"
    /\ stats.readingCount < MaxStatsTicks
    /\ stats' = MC_updateStatistics(stats, sensorData)
    /\ driver' = [kind |-> "stats"]
    /\ reply' = NoReply
    /\ UNCHANGED <<firmware, env, link, sched, flightLog, now, initOk, trendLog, autoDowngraded, sensorData, history, histSeq, appends,
                   systemState, trendStatics, data, stage>>

(* updateHistory() of a due history stage *)
MCHistoryTick ==
    /\ firmware = "mc3.0"
    /\ appends < env.maxAppends
    /\ history' = MC_updateHistory(history, sensorData)
    /\ histSeq' = [histSeq EXCEPT ![history.index] = appends + 1]
    /\ appends' = appends + 1
    /\ driver' = [kind |-> "history"]
    /\ reply' = NoReply
    /\ UNCHANGED <<firmware, env, link, sched, flightLog, now, initOk, trendLog, autoDowngraded, sensorData, systemState, trendStatics,
                   stats, data, stage>>

MCHandleData ==
    /\ firmware = "mc3.0"
    /\ reply' = MC_handleData(sensorData, systemState)
    /\ driver' = NoInput
    /\ UNCHANGED <<firmware, env, link, sched, flightLog, now, initOk, trendLog, autoDowngraded, sensorData, history, histSeq, appends,
                   systemState, trendStatics, stats, data, stage>>

MCHandleHistory ==
    /\ firmware = "mc3.0"
    /\ reply' = MC_handleHistory(history, histSeq)
    /\ driver' = NoInput
    /\ UNCHANGED <<firmware, env, link, sched, flightLog, now, initOk, trendLog, autoDowngraded, sensorData, history, histSeq, appends,
                   systemState, trendStatics, stats, data, stage>>

MCHandleSetProfile ==
    /\ firmware = "mc3.0"
    /\ \E hasArg \in BOOLEAN, arg \in env.profileArgs :
          LET r == MC_handleSetProfile(systemState, hasArg,
                                       IF hasArg THEN arg ELSE "")
          IN /\ systemState' = r.st
             /\ reply' = r.reply
             /\ driver' = [kind |-> "set_profile", hasArg |-> hasArg,
                           arg |-> IF hasArg THEN arg ELSE ""]
    /\ UNCHANGED <<firmware, env, link, sched, flightLog, now, initOk, trendLog, autoDowngraded, sensorData, history,
                   histSeq, appends, trendStatics, stats, data, stage>>

MCHandleToggleOLED ==
    /\ firmware = "mc3.0"
    /\ LET r == MC_handleToggleOLED(systemState)
       IN /\ systemState' = r.st
          /\ reply' = r.reply
    /\ driver' = NoInput
    /\ UNCHANGED <<firmware, env, link, sched, flightLog, now, initOk, trendLog, autoDowngraded, sensorData, history,
                   histSeq, appends, trendStatics, stats, data, stage>>

MCHandleCalibrate ==
    /\ firmware = "mc3.0"
    /\ \E pressurePa \in env.pressures, temp \in env.temps :
          LET r == MC_handleCalibrate(sensorData, systemState, pressurePa, temp)
          IN /\ systemState' = r.st
             /\ reply' = r.reply
             /\ driver' = IF r.read
                           THEN [kind |-> "calibrate", pressurePa |-> pressurePa,
                                 temp |-> temp]
                           ELSE NoInput
    /\ UNCHANGED <<firmware, env, link, sched, flightLog, now, initOk, trendLog, autoDowngraded, sensorData, history,
                   histSeq, appends, trendStatics, stats, data, stage>>

MCHandleStatistics ==
    /\ firmware = "mc3.0"
    /\ reply' = MC_handleStatistics(stats)
    /\ driver' = NoInput
    /\ UNCHANGED <<firmware, env, link, sched, flightLog, now, initOk, trendLog, autoDowngraded, sensorData, history, histSeq, appends,
                   systemState, trendStatics, stats, data, stage>>

----------------------------------------------------------------------------
(* connectWiFi() inside setup(), and setup() going on after it.  up is what *)
(* WiFi.status() == WL_CONNECTED gives at one poll.                         *)

WIFI_MAX_ATTEMPTS == 30

(* v2.0, Mission Control v3.0, v1.2: one evaluation of the while condition, *)
(* with the body when it holds                                              *)
connectWiFi_poll(w, up) ==
    IF ~up /\ w.attempts < WIFI_MAX_ATTEMPTS
    THEN [w EXCEPT !.attempts = @ + 1]
    ELSE [w EXCEPT !.phase = "exit"]

(* Testirockett: one evaluation of the while condition, with the body       *)
(* (delay, LED toggle) when it holds                                        *)
TR_connectWiFi_poll(w, up) ==
    IF ~up THEN [w EXCEPT !.led = ~w.led]
    ELSE [w EXCEPT !.phase = "online", !.led = TRUE]

(* The state on entry of connectWiFi(): the globals are zeroed *)
WiFiInit(e) ==
    /\ firmware \in {"v2.0", "mc3.0", "v1.2", "testirockett"}
    /\ env = e
    /\ link = [phase |-> "polling", attempts |-> 0, led |-> FALSE]
    /\ stage = "connectWiFi"
    /\ sensorData = NoSensorData
    /\ systemState = [isConnected |-> FALSE]
    /\ history = [index |-> 0, full |-> FALSE]
    /\ histSeq = [i \in Slots |-> 0]
    /\ appends = 0
    /\ trendStatics = NoStatics
    /\ trendLog = NoTrendLog
    /\ initOk = [bmp |-> TRUE, dht |-> TRUE]
    /\ stats = NoStats
    /\ data = NoData
    /\ driver = NoInput
    /\ autoDowngraded = FALSE
    /\ now = 0
    /\ sched = NoSched
    /\ flightLog = NoLog
    /\ reply = NoReply

ConnectPoll ==
    /\ firmware \in {"v2.0", "mc3.0", "v1.2"}
    /\ stage = "connectWiFi" /\ link.phase = "polling"
    /\ \E up \in env.associates :
          /\ link' = connectWiFi_poll(link, up)
          /\ driver' = [kind |-> "wifi", up |-> up]
    /\ reply' = NoReply
    /\ UNCHANGED <<firmware, env, sched, flightLog, now, initOk, trendLog, autoDowngraded,
                   sensorData, history, histSeq, appends, systemState, trendStatics, stats,
                   data, stage>>

(* if (WiFi.status() == WL_CONNECTED) ... else ... after the loop *)
ConnectReport ==
    /\ firmware \in {"v2.0", "mc3.0", "v1.2"}
    /\ stage = "connectWiFi" /\ link.phase = "exit"
    /\ \E up \in env.associates :
          /\ link' = [link EXCEPT !.phase = IF up THEN "online" ELSE "offline"]
          /\ driver' = [kind |-> "wifi", up |-> up]
    /\ reply' = NoReply
    /\ UNCHANGED <<firmware, env, sched, flightLog, now, initOk, trendLog, autoDowngraded,
                   sensorData, history, histSeq, appends, systemState, trendStatics, stats,
                   data, stage>>

TRConnectPoll ==
    /\ firmware = "testirockett"
    /\ stage = "connectWiFi" /\ link.phase = "polling"
    /\ \E up \in env.associates :
          /\ link' = TR_connectWiFi_poll(link, up)
          /\ systemState' = [systemState EXCEPT !.isConnected = @ \/ up]
          /\ driver' = [kind |-> "wifi", up |-> up]
    /\ reply' = NoReply
    /\ UNCHANGED <<firmware, env, sched, flightLog, now, initOk, trendLog, autoDowngraded,
                   sensorData, history, histSeq, appends, trendStatics, stats, data, stage>>

(* connectWiFi() has returned: setup() starts the web server and ends, and  *)
(* loop() begins                                                            *)
SetupProceeds ==
    /\ stage = "connectWiFi" /\ link.phase \in {"online", "offline"}
    /\ stage' = "loop"
    /\ driver' = NoInput
    /\ reply' = NoReply
    /\ UNCHANGED <<firmware, env, link, sched, flightLog, now, initOk, trendLog,
                   autoDowngraded, sensorData, history, histSeq, appends, systemState,
                   trendStatics, stats, data>>

----------------------------------------------------------------------------
(* Mission Control v3.0: loop() on a board whose timing is tracked.  One    *)
(* iteration passes the stages sensor, stats, history, oled, net in this    *)
(* order; currentMillis is read at its start.                               *)

(* The stages of one iteration of loop(), in program order *)
MC_loop == <<"sensor", "stats", "history", "oled", "net">>

MC_STATS_INTERVAL == 5000

MC_HISTORY_INTERVAL == 60000

MC_OLED_INTERVAL == 1000

MCLoopSensor ==
    /\ firmware = "mc3.0" /\ stage = "sensor"
    /\ \E in \in MC_inputs(env) :
          IF IntervalElapsed(now, sched.lastSensorRead, systemState.refreshRate)
          THEN LET r == MC_readAllSensors(sensorData, systemState, trendStatics, in, now)
               IN /\ sensorData' = r.sd
                  /\ systemState' = r.st
                  /\ trendStatics' = r.tr
                  /\ trendLog' = LogTrend(trendLog, trendStatics, r.tr, r.sd)
                  /\ driver' = in
                  /\ sched' = [sched EXCEPT !.currentMillis = now, !.lastSensorRead = now]
          ELSE /\ UNCHANGED <<sensorData, systemState, trendStatics, trendLog>>
               /\ driver' = NoInput
               /\ sched' = [sched EXCEPT !.currentMillis = now]
    /\ stage' = After(MC_loop, stage)
    /\ reply' = NoReply
    /\ UNCHANGED <<firmware, env, link, flightLog, now, initOk, autoDowngraded, history, histSeq,
                   appends, stats, data>>

MCLoopStats ==
    /\ firmware = "mc3.0" /\ stage = "stats"
    /\ IF IntervalElapsed(sched.currentMillis, sched.lastStatsUpdate, MC_STATS_INTERVAL)
       THEN /\ stats' = MC_updateStatistics(stats, sensorData)
            /\ driver' = [kind |-> "stats"]
            /\ sched' = [sched EXCEPT !.lastStatsUpdate = sched.currentMillis]
       ELSE /\ UNCHANGED <<stats, sched>>
            /\ driver' = NoInput
    /\ stage' = After(MC_loop, stage)
    /\ reply' = NoReply
    /\ UNCHANGED <<firmware, env, link, flightLog, now, initOk, trendLog, autoDowngraded, sensorData,
                   history, histSeq, appends, systemState, trendStatics, data>>

(* updateHistory(); saveToLog() *)
MCLoopHistory ==
    /\ firmware = "mc3.0" /\ stage = "history"
    /\ \E file \in env.files :
          IF IntervalElapsed(sched.currentMillis, sched.lastHistoryUpdate,
                             MC_HISTORY_INTERVAL)
          THEN LET r == MC_saveToLog(systemState, flightLog, sensorData, now, file)
               IN /\ history' = MC_updateHistory(history, sensorData)
                  /\ histSeq' = [histSeq EXCEPT ![history.index] = appends + 1]
                  /\ appends' = appends + 1
                  /\ systemState' = r.st
                  /\ flightLog' = r.log
                  /\ driver' = [kind |-> "history", file |-> file]
                  /\ sched' = [sched EXCEPT !.lastHistoryUpdate = sched.currentMillis]
          ELSE /\ UNCHANGED <<history, histSeq, appends, systemState, flightLog, sched>>
               /\ driver' = NoInput
    /\ stage' = After(MC_loop, stage)
    /\ reply' = NoReply
    /\ UNCHANGED <<firmware, env, link, now, initOk, trendLog, autoDowngraded, sensorData,
                   trendStatics, stats, data>>

MCLoopOLED ==
    /\ firmware = "mc3.0" /\ stage = "oled"
    /\ IF IntervalElapsed(sched.currentMillis, sched.lastOLEDUpdate, MC_OLED_INTERVAL)
       THEN /\ driver' = [kind |-> "oled",
                          display |-> MC_updateOLED(sensorData, systemState)]
            /\ sched' = [sched EXCEPT !.lastOLEDUpdate = sched.currentMillis]
       ELSE /\ driver' = NoInput
            /\ sched' = sched
    /\ stage' = After(MC_loop, stage)
    /\ reply' = NoReply
    /\ UNCHANGED <<firmware, env, link, flightLog, now, initOk, trendLog, autoDowngraded, sensorData,
                   history, histSeq, appends, systemState, trendStatics, stats, data>>

(* server.handleClient(); yield(): a pending request is served *)
MCLoopNet ==
    /\ firmware = "mc3.0" /\ stage = "net"
    /\ \/ reply' = NoReply
       \/ /\ [path |-> "/data"] \in env.requests
          /\ reply' = MC_handleData(sensorData, systemState)
       \/ /\ [path |-> "/history"] \in env.requests
          /\ reply' = MC_handleHistory(history, histSeq)
    /\ stage' = After(MC_loop, stage)
    /\ driver' = NoInput
    /\ UNCHANGED <<firmware, env, link, sched, flightLog, now, initOk, trendLog, autoDowngraded,
                   sensorData, history, histSeq, appends, systemState, trendStatics, stats,
                   data>>

----------------------------------------------------------------------------
(* Testirockett (src/testirockett.ino): the alarm system.  body_temp is in  *)
(* tenths of a degree, heart_rate and spo2 are whole numbers; the           *)
(* thresholds of the configuration are whole degrees and beats per minute.  *)

(* ConfigData as declared *)
TR_defaultConfig ==
    [led_enabled |-> TRUE, buzzer_enabled |-> FALSE, relay_enabled |-> FALSE,
     update_interval |-> 1000, alarm_threshold_temp |-> 50,
     alarm_threshold_hr |-> 120]

(* doc[key] | fallback: the value of the key when the document has it *)
JsonOr(field, fallback) == IF Len(field) = 0 THEN fallback ELSE field[1]

(* updateConfig(json) *)
TR_updateConfig(config, doc) ==
    [config EXCEPT
        !.buzzer_enabled = JsonOr(doc.buzzer_enabled, config.buzzer_enabled),
        !.relay_enabled = JsonOr(doc.relay_enabled, config.relay_enabled),
        !.alarm_threshold_temp =
            JsonOr(doc.alarm_threshold_temp, config.alarm_threshold_temp),
        !.alarm_threshold_hr =
            JsonOr(doc.alarm_threshold_hr, config.alarm_threshold_hr)]

(* readBodyTemperature(): raw is sensors.getTempCByIndex(0) *)
TR_readBodyTemperature(sd, raw) ==
    [sd EXCEPT !.body_temp = IF raw = -1270 \/ raw = 850 THEN 0 ELSE raw]

(* updateHealthSensors(): begun is pox.begin() *)
TR_updateHealthSensors(sd, begun, pulse) ==
    IF begun THEN [sd EXCEPT !.heart_rate = pulse.heart_rate, !.spo2 = pulse.spo2]
    ELSE sd

(* The temperature condition of checkAlarms() *)
TR_temperatureAlarm(body_temp, config) ==
    body_temp > config.alarm_threshold_temp * 10 /\ body_temp < 500

(* The alarm flag of checkAlarms() *)
TR_alarm(sd, config) ==
    \/ TR_temperatureAlarm(sd.body_temp, config)
    \/ sd.heart_rate > config.alarm_threshold_hr /\ sd.heart_rate < 250
    \/ sd.spo2 < 90 /\ sd.spo2 > 50

(* checkAlarms(): the buzzer tones and the level written to RELAY_PIN *)
TR_checkAlarms(sd, config) ==
    LET alarm == TR_alarm(sd, config)
    IN [alarm |-> alarm, buzzed |-> alarm /\ config.buzzer_enabled,
        relay |-> alarm /\ config.relay_enabled]

(* The state at the end of setup(): RELAY_PIN LOW, sensor data zeroed *)
TRInit(e) ==
    /\ firmware = "testirockett"
    /\ env = e
    /\ sensorData = [body_temp |-> 0, heart_rate |-> 0, spo2 |-> 0]
    /\ systemState = TR_defaultConfig
    /\ data = [alarm |-> FALSE, buzzed |-> FALSE, relay |-> FALSE]
    /\ history = [index |-> 0, full |-> FALSE]
    /\ histSeq = [i \in Slots |-> 0]
    /\ appends = 0
    /\ trendStatics = NoStatics
    /\ trendLog = NoTrendLog
    /\ initOk = [bmp |-> TRUE, dht |-> TRUE]
    /\ stats = NoStats
    /\ stage = "loop"
    /\ driver = NoInput
    /\ autoDowngraded = FALSE
    /\ now = 0
    /\ sched = NoSched
    /\ flightLog = NoLog
    /\ link = WifiDone
    /\ reply = NoReply

(* loop() when update_interval has elapsed: readAllSensors() ...            *)
(* checkAlarms()                                                            *)
TRSensorTick ==
    /\ firmware = "testirockett" /\ stage = "loop"
    /\ \E raw \in env.bodyTemps :
          LET sd == TR_readBodyTemperature(sensorData, raw)
          IN /\ sensorData' = sd
             /\ data' = TR_checkAlarms(sd, systemState)
             /\ driver' = [kind |-> "sensors", raw |-> raw]
    /\ reply' = NoReply
    /\ UNCHANGED <<firmware, env, link, sched, flightLog, now, initOk, trendLog,
                   autoDowngraded, history, histSeq, appends, systemState,
                   trendStatics, stats, stage>>

(* loop() every 100 ms: updateHealthSensors() *)
TRHealthTick ==
    /\ firmware = "testirockett" /\ stage = "loop"
    /\ \E begun \in BOOLEAN, pulse \in env.pulses :
          /\ sensorData' = TR_updateHealthSensors(sensorData, begun, pulse)
          /\ driver' = [kind |-> "pulse", begun |-> begun, pulse |-> pulse]
    /\ reply' = NoReply
    /\ UNCHANGED <<firmware, env, link, sched, flightLog, now, initOk, trendLog,
                   autoDowngraded, history, histSeq, appends, systemState,
                   trendStatics, stats, data, stage>>

(* POST /api/config, with a body or without *)
TRPostConfig ==
    /\ firmware = "testirockett" /\ stage = "loop"
    /\ \/ \E doc \in env.configPosts :
             /\ systemState' = TR_updateConfig(systemState, doc)
             /\ reply' = [kind |-> "config", code |-> 200]
             /\ driver' = [kind |-> "config", doc |-> doc]
       \/ /\ systemState' = systemState
          /\ reply' = [kind |-> "config", code |-> 400]
          /\ driver' = NoInput
    /\ UNCHANGED <<firmware, env, link, sched, flightLog, now, initOk, trendLog,
                   autoDowngraded, sensorData, history, histSeq, appends,
                   trendStatics, stats, data, stage>>

----------------------------------------------------------------------------
(* Specifications *)

(* The alarm system of Testirockett *)
AlarmsInit == TRInit(AlarmEnv)

AlarmsNext == TRSensorTick \/ TRHealthTick \/ TRPostConfig

SpecAlarms == AlarmsInit /\ [][AlarmsNext]_vars

(* The ring buffer over long runs: v2.0 loop() serving /history, and the    *)
(* history subsystem of Mission Control v3.0                                *)
HistoryInit == V2Init(HistoryEnv) \/ MCInit(HistoryEnv)

HistoryNext ==
    \/ V2LoopSensor \/ V2LoopBattery \/ V2LoopStats \/ V2LoopHistory
    \/ V2LoopOLED \/ V2NoRequest \/ V2HandleHistory \/ V2LoopEnd
    \/ MCHistoryTick \/ MCHandleHistory

SpecHistory == HistoryInit /\ [][HistoryNext]_vars

(* v2.0: the power profile under battery, sensor and memory trouble and     *)
(* operator commands                                                        *)
Init == V2Init(ProfileEnv)

Next == V2Next

Spec == Init /\ [][Next]_vars

(* v2.0: the health classification on every combination of its inputs *)
HealthInit == V2Init(HealthEnv)

HealthNext ==
    \/ V2LoopSensor \/ V2LoopBattery \/ V2LoopStats \/ V2LoopHistory
    \/ V2LoopOLED \/ V2NoRequest \/ V2HandleData \/ V2LoopEnd

SpecHealth == HealthInit /\ [][HealthNext]_vars

(* Sensor validation of v2.0 and v1.2: every sensor reading *)
SensorsInit == \E e \in SensorEnvs : V2Init(e) \/ V12Init(e)

SensorsNext ==
    \/ V2LoopSensor \/ V2LoopBattery \/ V2LoopStats \/ V2LoopHistory \/ V2LoopOLED
    \/ V2NoRequest \/ V2HandleData \/ V2LoopEnd
    \/ V12SensorTick \/ V12SystemTick \/ V12HandleData

SpecSensors == SensorsInit /\ [][SensorsNext]_vars

(* Mission Control v3.0 and CanSat 3.0: sensor readings, statistics, /data  *)
MissionInit == MCInit(MissionEnv) \/ CanSatInit(MissionEnv)

MissionNext ==
    \/ MCSensorTick \/ MCStatsTick \/ MCHandleData \/ MCHandleStatistics
    \/ CanSatLogTick \/ CanSatHandleData

SpecMission == MissionInit /\ [][MissionNext]_vars

(* The /control endpoint of v2.0 *)
ControlInit == V2Init(ControlEnv)

SpecControl == ControlInit /\ [][V2Next]_vars

(* The profile of Mission Control v3.0 *)
SetProfileInit == MCInit(SetProfileEnv)

SetProfileNext ==
    \/ MCSensorTick \/ MCHandleData \/ MCHandleSetProfile \/ MCHandleToggleOLED

SpecSetProfile == SetProfileInit /\ [][SetProfileNext]_vars

(* Battery percent and runtime estimate of v2.0 and Mission Control v3.0 *)
BatteryInit == V2Init(BatteryEnv) \/ MCInit(BatteryEnv)

BatteryNext == V2Next \/ MCSensorTick \/ MCHandleData

SpecBattery == BatteryInit /\ [][BatteryNext]_vars

(* The web servers of v2.0 and Mission Control v3.0 on every route *)
RequestsInit == V2Init(RequestEnv) \/ MCInit(RequestEnv)

RequestsNext ==
    \/ V2Next \/ V2HandleCalibrate
    \/ MCSensorTick
    \/ MCHandleData \/ MCHandleHistory \/ MCHandleSetProfile \/ MCHandleToggleOLED
    \/ MCHandleCalibrate \/ MCHandleStatistics

SpecRequests == RequestsInit /\ [][RequestsNext]_vars

(* Mission Control v3.0: the scheduler and the flight log *)
FlightLogInit == MCInit(LogEnv)

FlightLogNext ==
    \/ MCLoopSensor \/ MCLoopStats \/ MCLoopHistory \/ MCLoopOLED \/ MCLoopNet
    \/ TimePasses

SpecFlightLog == FlightLogInit /\ [][FlightLogNext]_vars

(* connectWiFi() of every sketch.  The processor keeps running: a step that *)
(* can be taken is taken.                                                   *)
WiFiNext == ConnectPoll \/ ConnectReport \/ TRConnectPoll \/ SetupProceeds

SpecWiFi == WiFiInit(WiFiEnv) /\ [][WiFiNext]_vars /\ WF_vars(WiFiNext)

(* The schedulers: v2.0 and v1.2 on a board from boot on and on a board     *)
(* whose millis() wraps, and Mission Control v3.0                           *)
SchedulerInit ==
    \/ V2Init(SchedEnv) \/ V2Uptime(SchedEnv)
    \/ V12Init(SchedEnv) \/ V12Uptime(SchedEnv)
    \/ MCInit(LogEnv)

SchedulerNext ==
    \/ V2Next
    \/ V12LoopSensor \/ V12LoopBattery \/ V12LoopStats \/ V12LoopOLED \/ V12LoopNet
    \/ MCLoopSensor \/ MCLoopStats \/ MCLoopHistory \/ MCLoopOLED \/ MCLoopNet
    \/ TimePasses

SpecScheduler == SchedulerInit /\ [][SchedulerNext]_vars

(* Pressure trend of v2.0 and Mission Control v3.0 *)
TrendInit == V2Init(TrendEnv) \/ MCInit(TrendEnv)

TrendNext ==
    \/ V2LoopSensor \/ V2LoopBattery \/ V2LoopStats \/ V2LoopHistory \/ V2LoopOLED
    \/ V2NoRequest \/ V2HandleData \/ V2LoopEnd
    \/ MCSensorTick \/ MCHandleData
    \/ TimePasses

SpecTrend == TrendInit /\ [][TrendNext]_vars

----------------------------------------------------------------------------
(* Properties *)

Volt(tenths) == tenths * 1023

HistoryFirmware == firmware \in {"v2.0", "mc3.0"}

Increasing(seq) == \A i, j \in 1..Len(seq) : i < j => seq[i] < seq[j]

(* C1: the per-channel sequence of a /history reply has at most            *)
(* HISTORY_SIZE values and lists the retained samples oldest first, also    *)
(* after the buffer has wrapped.                                            *)
C1_HistoryOldestFirst ==
    (HistoryFirmware /\ reply.kind = "history")
        => /\ Len(reply.temperature) <= 60
           /\ Increasing(reply.order)

(* C2: after k updateHistory calls the cursor is k mod 60 and within 0..59, *)
(* full is false exactly while k < 60 and never reverts, and a /history     *)
(* reply has min(k, 60) values per channel.                                 *)
C2_CursorState ==
    HistoryFirmware
        => /\ history.index = appends % 60
           /\ history.index \in 0..59
           /\ history.full = (appends >= 60)
           /\ reply.kind = "history"
                 => /\ Len(reply.temperature) = Min(appends, 60)
                    /\ Len(reply.pressure) = Min(appends, 60)
                    /\ Len(reply.battery) = Min(appends, 60)

C2_CursorAndFull == [](C2_CursorState) /\ [][history.full => history'.full]_vars

C2_Witness ==
    /\ HistoryFirmware /\ reply.kind = "history"
    /\ appends > 60 /\ history.full /\ history.index > 0
    /\ Len(reply.temperature) = 60

(* C3: after every updateSystemHealth call health is CRITICAL if the BMP is *)
(* invalid or the battery is below 3.2 V or the free heap below 5000; else  *)
(* DEGRADED if the DHT is invalid or WiFi quality is below 30 or the        *)
(* battery is below 3.4 V or the free heap below 10000 or the CPU load      *)
(* above 80; else NORMAL -- whatever the health, profile or history before. *)
C3_Class(bmp, dht, volts, heap, wifi, load) ==
    IF ~bmp \/ volts < Volt(32) \/ heap < 5000 THEN 2
    ELSE IF ~dht \/ wifi < 30 \/ volts < Volt(34) \/ heap < 10000 \/ load > 80 THEN 1
    ELSE 0

C3_HealthIsFunctionOfInputs ==
    driver.kind = "stats"
        => sensorData.health =
              C3_Class(sensorData.bmp_valid, sensorData.dht_valid,
                       sensorData.battery_voltage, sensorData.free_heap,
                       sensorData.wifi_quality, sensorData.cpu_load)

C3_Witness ==
    /\ driver.kind = "stats" /\ driver.healthBefore = HEALTH_CRITICAL
    /\ sensorData.health = HEALTH_DEGRADED
    /\ sensorData.bmp_valid /\ sensorData.dht_valid
    /\ sensorData.battery_voltage >= Volt(34) /\ sensorData.wifi_quality >= 30
    /\ sensorData.free_heap >= 5000 /\ sensorData.free_heap < 10000

C5_BatteryDropScenario ==
    (/\ driver.kind = "stats"
     /\ driver.healthBefore = HEALTH_NORMAL
     /\ driver.profileBefore = PROFILE_BALANCED
     /\ sensorData.battery_voltage = 755 * 42)
        => /\ sensorData.health = HEALTH_CRITICAL
           /\ systemState.currentProfile = PROFILE_ULTRA_LOW_POWER

C5_Witness ==
    /\ driver.kind = "stats"
    /\ driver.healthBefore = HEALTH_NORMAL
    /\ driver.profileBefore = PROFILE_BALANCED
    /\ sensorData.battery_voltage = 755 * 42
    /\ sensorData.bmp_valid /\ sensorData.free_heap >= 10000
    /\ sensorData.health = HEALTH_CRITICAL
    /\ systemState.currentProfile = PROFILE_ULTRA_LOW_POWER
    /\ autoDowngraded

(* C6: after an automatic downgrade no step other than an operator profile  *)
(* command on /control changes the active profile.                          *)
C6_NoAutomaticUpgrade ==
    [][(autoDowngraded /\ systemState'.currentProfile # systemState.currentProfile)
          => (reply'.kind = "control" /\ reply'.code = 200)]_vars

C6_Witness ==
    /\ autoDowngraded
    /\ driver.kind = "stats"
    /\ sensorData.battery_voltage = 877 * 42
    /\ sensorData.health = HEALTH_NORMAL
    /\ systemState.currentProfile = PROFILE_ULTRA_LOW_POWER

TempInRange(t) == ~isnan(t) /\ t > -400 /\ t < 850

PressureInRange(pa) == pa > 30000 /\ pa < 110000

AltitudeInRange(a) == ~isnan(a) /\ a > -5000 /\ a < 90000

HumidityInRange(h) == ~isnan(h) /\ h >= 0 /\ h <= 100

(* C7: in v2.0 and v1.2, a sensor tick stores each of temperature,          *)
(* pressure, altitude (when readBMP reads the BMP180) and humidity when the *)
(* reading is inside its range and keeps the stored value otherwise, each   *)
(* channel on its own.                                                      *)
C7_InvalidReadingKeepsStored ==
    [][(firmware \in {"v2.0", "v1.2"} /\ driver'.kind = "sensors")
          => /\ sensorData.bmp_valid
                   => /\ sensorData'.temperature =
                             IF TempInRange(driver'.temp)
                             THEN driver'.temp ELSE sensorData.temperature
                      /\ sensorData'.pressure =
                             IF PressureInRange(driver'.pressurePa)
                             THEN driver'.pressurePa ELSE sensorData.pressure
                      /\ sensorData'.altitude =
                             IF AltitudeInRange(driver'.altitude)
                             THEN driver'.altitude ELSE sensorData.altitude
             /\ sensorData'.humidity =
                    IF HumidityInRange(driver'.h)
                    THEN driver'.h ELSE sensorData.humidity]_vars

C7_Witness ==
    /\ firmware \in {"v2.0", "v1.2"} /\ driver.kind = "sensors"
    /\ sensorData.bmp_valid
    /\ driver.temp = 850 /\ sensorData.temperature = 300
    /\ driver.pressurePa = 100000 /\ sensorData.pressure = 100000
    /\ isnan(driver.altitude) /\ sensorData.altitude = 200
    /\ isnan(driver.h) /\ sensorData.humidity = 50

(* C8: in v2.0, after a sensor tick on which the BMP180 temperature or      *)
(* pressure read was NaN or out of range, the /data snapshot shows the      *)
(* previous value of that channel and bmp_valid false; after a tick on      *)
(* which both were in range it shows bmp_valid true.                        *)
C8_InvalidBmpFlagged ==
    [][(firmware = "v2.0" /\ driver'.kind = "sensors" /\ sensorData.bmp_valid)
          => LET before == V2_handleData(sensorData, systemState)
                 after == V2_handleData(sensorData', systemState')
             IN /\ ~TempInRange(driver'.temp)
                      => (after.temperature = before.temperature /\ ~after.bmp_valid)
                /\ ~PressureInRange(driver'.pressurePa)
                      => (after.pressure = before.pressure /\ ~after.bmp_valid)
                /\ (TempInRange(driver'.temp) /\ PressureInRange(driver'.pressurePa))
                      => after.bmp_valid]_vars

StoredBMP ==
    IF firmware = "cansat"
    THEN [temperature |-> data.temp, pressure |-> data.pressure,
          altitude |-> data.altitude]
    ELSE [temperature |-> sensorData.temperature, pressure |-> sensorData.pressure,
          altitude |-> sensorData.altitude]

BMPIsRead == firmware = "cansat" \/ sensorData.bmp_valid

(* C9: in Mission Control v3.0 and CanSat 3.0, a sensor tick on which the   *)
(* BMP180 temperature or pressure read is NaN or out of range leaves the    *)
(* stored temperature, pressure and altitude as they were.                  *)
C9_InvalidBmpNotStored ==
    [][(/\ firmware \in {"mc3.0", "cansat"} /\ driver'.kind = "sensors"
        /\ BMPIsRead
        /\ ~TempInRange(driver'.temp) \/ ~PressureInRange(driver'.pressurePa))
          => StoredBMP' = StoredBMP]_vars

SameAverage(sumBefore, sumAfter) ==
    /\ isnan(sumBefore) = isnan(sumAfter)
    /\ ~isnan(sumBefore)
          => sumAfter * stats.readingCount = sumBefore * stats'.readingCount

(* C10: in Mission Control v3.0, a stats tick leaves the humidity min, max  *)
(* and average unchanged while dht_valid is false, and the temperature and  *)
(* pressure min, max and average unchanged while bmp_valid is false.        *)
C10_InvalidNotFolded ==
    [][(firmware = "mc3.0" /\ driver'.kind = "stats")
          => /\ ~sensorData.dht_valid
                   => /\ stats'.humidity_min = stats.humidity_min
                      /\ stats'.humidity_max = stats.humidity_max
                      /\ SameAverage(stats.humidity_sum, stats'.humidity_sum)
             /\ ~sensorData.bmp_valid
                   => /\ stats'.temp_min = stats.temp_min
                      /\ stats'.temp_max = stats.temp_max
                      /\ SameAverage(stats.temp_sum, stats'.temp_sum)
                      /\ stats'.pressure_min = stats.pressure_min
                      /\ stats'.pressure_max = stats.pressure_max
                      /\ SameAverage(stats.pressure_sum, stats'.pressure_sum)]_vars

(* C11: in Mission Control v3.0, a /data snapshot served while dht_valid is *)
(* false shows no computed dew point and no computed heat index: neither    *)
(* field holds a value computed on an earlier tick.                         *)
C11_NoStaleDewPoint ==
    (firmware = "mc3.0" /\ reply.kind = "data" /\ ~sensorData.dht_valid)
        => /\ reply.dew_point = NoMetric
           /\ reply.heat_index = NoMetric

(* C12: in v2.0, after every sensor tick a channel whose driver failed to   *)
(* initialise in setup (bmp.begin() false, DHT test read NaN) is still      *)
(* marked invalid.                                                          *)
C12_InitFailurePermanent ==
    (firmware = "v2.0" /\ driver.kind = "sensors")
        => /\ ~initOk.bmp => ~sensorData.bmp_valid
           /\ ~initOk.dht => ~sensorData.dht_valid

RecognisedProfile(value) == value \in {<<"0">>, <<"1">>, <<"2">>}

(* C13: in v2.0, a /control profile request changes the profile exactly     *)
(* when its value is 0, 1 or 2 (to that profile, answered 200); with any    *)
(* other value the state is left as it was and the answer is an error.      *)
C13_OnlyRecognisedProfiles ==
    [][(/\ firmware = "v2.0" /\ driver'.kind = "control"
        /\ driver'.body.plain /\ driver'.body.action = "profile"
        /\ driver'.body.hasValue)
          => IF RecognisedProfile(driver'.body.value)
             THEN /\ systemState'.currentProfile = toInt1(driver'.body.value)
                  /\ reply'.code = 200
             ELSE /\ systemState' = systemState
                  /\ sensorData' = sensorData
                  /\ reply'.code = 400]_vars

MCProfileInterval(name) ==
    IF name = "Performance" THEN 500
    ELSE IF name = "Balanced" THEN 2000
    ELSE IF name = "Ultra Low Power" THEN 10000
    ELSE 0 - 1

(* C14: in Mission Control v3.0 the active profile is always one of         *)
(* Performance, Balanced, Ultra Low Power with refreshRate its interval,    *)
(* and a /set_profile request naming any other profile leaves the profile,  *)
(* refreshRate and the display toggle as they were.                         *)
C14_ProfileState ==
    firmware = "mc3.0"
        => /\ systemState.currentProfile \in {"Performance", "Balanced", "Ultra Low Power"}
           /\ systemState.refreshRate = MCProfileInterval(systemState.currentProfile)

C14_OneKnownProfile ==
    /\ [](C14_ProfileState)
    /\ [][(/\ firmware = "mc3.0" /\ driver'.kind = "set_profile" /\ driver'.hasArg
           /\ MCProfileInterval(driver'.arg) < 0)
             => systemState' = systemState]_vars

TrendFirmware == firmware \in {"v2.0", "mc3.0"}

ShownTrend ==
    IF firmware = "mc3.0"
    THEN <<sensorData.weather_trend, sensorData.pressure_rate>>
    ELSE <<sensorData.trend, sensorData.pressure_rate>>

TrendEvaluated == trendLog'.count = trendLog.count + 1

(* C15: in v2.0 and Mission Control v3.0 the trend and pressure_rate change *)
(* only in a trend evaluation, and every evaluation comes at least one      *)
(* trend interval (3 600 000 ms) after the one before it (after boot, for   *)
(* the first), whatever runs in between.                                    *)
C15_TrendOncePerInterval ==
    [][TrendFirmware
          => /\ ShownTrend' # ShownTrend => TrendEvaluated
             /\ TrendEvaluated
                   => /\ trendLog'.at = now
                      /\ trendLog'.at - trendLog.at >= 3600000]_vars

C15_Witness ==
    /\ firmware = "mc3.0" /\ driver.kind = "sensors"
    /\ trendLog.count = 2 /\ trendLog.at = now
    /\ sensorData.weather_trend = "FALLING"

TrendOf(change) ==
    IF change > HalfHpa THEN 1 ELSE IF change < 0 - HalfHpa THEN 2 ELSE 0

(* C16: in v2.0, a trend evaluation with a baseline p0 > 0 and the current  *)
(* pressure p1 sets pressure_rate to p1 - p0, the trend to RISING if        *)
(* p1 - p0 > 0.5, FALLING if p1 - p0 < -0.5, else STABLE, and the baseline  *)
(* to p1: 1000.0 then 1001.0 is RISING with +1.00, 1000.0 then 999.0 is     *)
(* FALLING with -1.00, 1000.0 then 1000.2 is STABLE.                        *)
C16_TrendValues ==
    [][(firmware = "v2.0" /\ TrendEvaluated /\ trendStatics.lastPressure > 0)
          => LET p0 == trendStatics.lastPressure
                 p1 == sensorData'.pressure
                 change == FloatHpa(p1) - FloatHpa(p0)
                 shown == V2_handleData(sensorData', systemState')
             IN /\ sensorData'.pressure_rate = change
                /\ sensorData'.trend = TrendOf(change)
                /\ trendStatics'.lastPressure = p1
                /\ (p0 = 100000 /\ p1 = 100100)
                      => (shown.trend = TREND_RISING /\ shown.pressure_rate = 100)
                /\ (p0 = 100000 /\ p1 = 99900)
                      => (shown.trend = TREND_FALLING /\ shown.pressure_rate = 0 - 100)
                /\ (p0 = 100000 /\ p1 = 100020)
                      => (shown.trend = TREND_STABLE /\ shown.pressure_rate = 20)]_vars

C16_Witness ==
    /\ firmware = "v2.0" /\ driver.kind = "stats"
    /\ trendLog.count = 3 /\ trendLog.at = now
    /\ trendStatics.lastPressure = 100100 /\ sensorData.pressure = 100100
    /\ sensorData.trend = TREND_RISING
    /\ sensorData.pressure_rate = 2 * HalfHpa

(* C17: in Mission Control v3.0, every trend evaluation after the first     *)
(* sets pressure_rate to the current pressure minus the pressure at the     *)
(* evaluation before it.                                                    *)
C17_BaselineAdvances ==
    [][(firmware = "mc3.0" /\ TrendEvaluated /\ trendLog.count >= 1)
          => sensorData'.pressure_rate =
                 FloatHpa(sensorData'.pressure) - FloatHpa(trendLog.pressure)]_vars

(* C18: in v2.0, until the second trend evaluation the trend is STABLE and  *)
(* pressure_rate 0; the first evaluation comes no sooner than one trend     *)
(* interval after boot and records the current pressure as the baseline.    *)
C18_FirstEvaluationRecordsOnly ==
    firmware = "v2.0"
        => /\ trendLog.count <= 1
                 => (sensorData.trend = TREND_STABLE /\ sensorData.pressure_rate = 0)
           /\ trendLog.count = 0 => trendStatics.lastPressure = 0
           /\ trendLog.count = 1
                 => /\ trendStatics.lastPressure = trendLog.pressure
                    /\ trendLog.at >= 3600000

C18_Witness ==
    /\ firmware = "v2.0"
    /\ trendLog.count = 1 /\ now > trendLog.at
    /\ trendStatics.lastPressure = 100000 /\ sensorData.pressure = 100100
    /\ driver.kind = "stats"
    /\ sensorData.trend = TREND_STABLE

BatteryWasRead ==
    \/ firmware = "v2.0" /\ driver'.kind = "battery"
    \/ firmware = "mc3.0" /\ driver'.kind = "sensors"

(* C19: the battery percent that a battery read stores is within 0..100, 0  *)
(* for every voltage up to 3.0 V, 100 for every voltage from 4.2 V on, and  *)
(* no lower than the percent stored for any lower voltage; the voltage is   *)
(* (adcValue / 1023.0) * 4.2.                                               *)
C19_PercentMonotoneClamped ==
    [][BatteryWasRead
          => LET v == driver'.adcValue * 42
                 pct == sensorData'.battery_percent
             IN /\ sensorData'.battery_voltage = v
                /\ pct \in 0..100
                /\ v <= 30 * 1023 => pct = 0
                /\ v >= 42 * 1023 => pct = 100
                /\ v >= sensorData.battery_voltage
                      => pct >= sensorData.battery_percent]_vars

(* C20: in v2.0, after a battery read /data shows as runtime the minutes    *)
(* floor((battery_percent / 100 * 500) / draw * 60), draw being 150, 100 or *)
(* 50 mA by profile, and "N/A" only for a draw of zero.                     *)
C20_RuntimeEstimate ==
    (firmware = "v2.0" /\ driver.kind = "battery")
        => LET draw == IF systemState.currentProfile = PROFILE_PERFORMANCE THEN 150
                       ELSE IF systemState.currentProfile = PROFILE_BALANCED THEN 100
                       ELSE 50
               minutes == (sensorData.battery_percent * 5 * 60) \div draw
           IN V2_handleData(sensorData, systemState).runtime_text = <<minutes, "min">>

(* A driver read: the step called the BMP180, the DHT11 or the battery ADC *)
DriverRead(d) == d.kind \in {"sensors", "battery", "calibrate"}

(* C21: no step that serves an HTTP request performs a sensor driver read;  *)
(* a handler only reads the snapshot the scheduler computed.                *)
C21_HandlersReadNoSensor ==
    [][reply' # NoReply => ~DriverRead(driver')]_vars

(* C22: in Mission Control v3.0 any two records appended to the flight log  *)
(* are at least 60 000 ms apart.                                            *)
C22_OneRecordPerInterval ==
    [][(firmware = "mc3.0" /\ flightLog.appended > 0
        /\ flightLog'.appended > flightLog.appended)
          => /\ flightLog'.appended = flightLog.appended + 1
             /\ flightLog'.last - flightLog.last >= 60000]_vars

(* Two records have been appended *)
C22_Witness ==
    firmware = "mc3.0" /\ flightLog.appended >= 2 /\ driver.kind = "history"

(* C23: in Mission Control v3.0 every history tick of loop() that calls     *)
(* saveToLog while the log file can be opened appends a record.             *)
C23_RecordEveryInterval ==
    [][(firmware = "mc3.0" /\ driver'.kind = "history" /\ driver'.file.opens)
          => flightLog'.appended = flightLog.appended + 1]_vars

(* C24: in every sketch connectWiFi() returns, after at most 30 polls, also *)
(* when the access point never answers, and setup() goes on to the web      *)
(* server and loop().                                                       *)
C24_ConnectTerminates ==
    <>(stage = "loop" /\ link.attempts <= WIFI_MAX_ATTEMPTS)

Stamps ==
    {"lastSensorRead", "lastBatteryRead", "lastSystemStats", "lastHistoryUpdate",
     "lastOLEDUpdate"}

(* The step of a stage whose subsystem is kind: it runs exactly when        *)
(* interval has elapsed at currentMillis since lastRun, and then sets       *)
(* lastRun, and nothing else, to currentMillis                              *)
RunsWhenDue(kind, lastRun, interval, currentMillis) ==
    LET ran == driver'.kind = kind
    IN /\ ran <=> currentMillis - sched[lastRun] >= interval
       /\ sched'[lastRun] = IF ran THEN currentMillis ELSE sched[lastRun]
       /\ \A other \in Stamps \ {lastRun} : sched'[other] = sched[other]
       /\ sched'.currentMillis = currentMillis

(* C25: in the v2.0 loop each subsystem runs in an iteration if and only if *)
(* the time since its own last run is at least its interval under the       *)
(* profile active at the start of the iteration; a run sets its own         *)
(* timestamp, and no other, to the start time of the iteration.             *)
C25_StagesRunWhenDue ==
    [][(firmware = "v2.0" /\ env.timed)
          => /\ stage = "sensor" /\ stage' = "battery"
                  => /\ RunsWhenDue("sensors", "lastSensorRead",
                                    profiles[systemState.currentProfile].sensorInterval,
                                    now)
                     /\ sched'.profile = systemState.currentProfile
             /\ stage = "battery" /\ stage' = "stats"
                  => RunsWhenDue("battery", "lastBatteryRead",
                                 profiles[sched.profile].batteryInterval,
                                 sched.currentMillis)
             /\ stage = "stats" /\ stage' = "history"
                  => RunsWhenDue("stats", "lastSystemStats",
                                 profiles[sched.profile].statsInterval,
                                 sched.currentMillis)
             /\ stage = "history" /\ stage' = "oled"
                  => RunsWhenDue("history", "lastHistoryUpdate", 60000,
                                 sched.currentMillis)
             /\ stage = "oled" /\ stage' = "net"
                  => RunsWhenDue("oled", "lastOLEDUpdate",
                                 profiles[sched.profile].oledInterval,
                                 sched.currentMillis)
             /\ stage # "sensor" => sched'.profile = sched.profile
             /\ (stage' = stage \/ stage \in {"net", "end"}) => sched' = sched]_vars

(* The display was refreshed under the profile of the start of the          *)
(* iteration, after updateSystemHealth had switched the profile in the same *)
(* iteration                                                                *)
C25_Witness ==
    /\ firmware = "v2.0" /\ env.timed
    /\ stage = "net" /\ driver.kind = "oled"
    /\ sched.lastOLEDUpdate = sched.currentMillis
    /\ sched.lastSystemStats = sched.currentMillis
    /\ sched.profile # systemState.currentProfile

LoopOrder ==
    IF firmware = "v2.0"
    THEN <<"sensor", "battery", "stats", "history", "oled", "net", "end">>
    ELSE <<"sensor", "stats", "history", "oled", "net">>

StageOf ==
    [kind \in {"sensors", "battery", "stats", "history", "oled"} |->
        IF kind = "sensors" THEN "sensor" ELSE kind]

(* C26: within one loop iteration of v2.0 and of Mission Control v3.0 the   *)
(* stages follow each other in the order sensor read, battery read (v2.0),  *)
(* stats update, history append, display refresh, network service; a        *)
(* subsystem runs only in its own stage, and a request is answered only in  *)
(* the network stage, after the other stages of the iteration.              *)
C26_FixedStageOrder ==
    [][(firmware \in {"v2.0", "mc3.0"} /\ env.timed /\ stage' # stage)
          => /\ \E i \in 1..Len(LoopOrder) :
                    /\ LoopOrder[i] = stage
                    /\ LoopOrder[(i % Len(LoopOrder)) + 1] = stage'
             /\ driver'.kind \in DOMAIN StageOf => stage = StageOf[driver'.kind]
             /\ reply' # NoReply => stage = "net"]_vars

(* An iteration of v2.0 in which the sensor, stats, history and display     *)
(* stages all ran and /data was answered afterwards                         *)
C26_Witness ==
    /\ firmware = "v2.0" /\ env.timed
    /\ stage = "end" /\ reply.kind = "data"
    /\ sched.lastSensorRead = sched.currentMillis
    /\ sched.lastSystemStats = sched.currentMillis
    /\ sched.lastHistoryUpdate = sched.currentMillis
    /\ sched.lastOLEDUpdate = sched.currentMillis
    /\ sched.currentMillis > 0

(* The stamp and the subsystem of a timed stage *)
StampOf ==
    [s \in {"sensor", "battery", "stats", "history", "oled"} |->
        CASE s = "sensor" -> "lastSensorRead"
          [] s = "battery" -> "lastBatteryRead"
          [] s = "stats" -> "lastSystemStats"
          [] s = "history" -> "lastHistoryUpdate"
          [] s = "oled" -> "lastOLEDUpdate"]

(* The interval of the stage that is about to act *)
IntervalOf ==
    IF firmware = "v1.2"
    THEN CASE stage = "sensor" -> 2000
           [] stage = "battery" -> 5000
           [] stage = "stats" -> 1000
           [] stage = "oled" -> 1000
    ELSE LET profile == IF stage = "sensor" THEN systemState.currentProfile
                        ELSE sched.profile
         IN CASE stage = "sensor" -> profiles[profile].sensorInterval
              [] stage = "battery" -> profiles[profile].batteryInterval
              [] stage = "stats" -> profiles[profile].statsInterval
              [] stage = "history" -> 60000
              [] stage = "oled" -> profiles[profile].oledInterval

(* The time that has really passed between two readings of millis() taken   *)
(* less than 2^31 ms apart: the readings are held as 32-bit patterns, a     *)
(* reading before the wrap being negative and one after it non-negative     *)
RealElapsed(later, earlier) == later - earlier

(* C27: on v2.0 and v1.2, also when millis() wraps around 2^32 between the  *)
(* last run of a subsystem and the test, a subsystem runs in an iteration   *)
(* exactly when the time that has really passed since its last run is at    *)
(* least its interval, and updateWeatherTrend evaluates exactly when an     *)
(* hour has really passed since its last evaluation.                        *)
C27_ElapsedAcrossWrap ==
    [][(env.timed /\ firmware \in {"v2.0", "v1.2"} /\ stage' # stage
          /\ stage \in DOMAIN StampOf)
          => /\ driver'.kind = (IF stage = "sensor" THEN "sensors" ELSE stage)
                  <=> RealElapsed(IF stage = "sensor" THEN now
                                  ELSE sched.currentMillis,
                                  sched[StampOf[stage]]) >= IntervalOf
             /\ (firmware = "v2.0" /\ stage = "stats")
                  => (trendLog'.count = trendLog.count + 1
                         <=> /\ driver'.kind = "stats"
                             /\ RealElapsed(now, trendStatics.lastTrendUpdate)
                                    >= 3600000)]_vars

(* v1.2: the battery, read 3 seconds before the wrap, is read again 2       *)
(* seconds after it, the sensors having been read 1 second after it         *)
C27_Witness ==
    /\ firmware = "v1.2" /\ env.timed
    /\ driver.kind = "battery" /\ sched.lastBatteryRead = 2000
    /\ sched.lastSensorRead = 1000

(* C28: in v2.0 sensorData.estimated_runtime_min always equals             *)
(* estimateRuntimeMinutes of the current battery_percent and the currently  *)
(* active profile, also right after a profile change on /control or an      *)
(* automatic downgrade.                                                     *)
C28_RuntimeFollowsProfile ==
    firmware = "v2.0"
        => sensorData.estimated_runtime_min
              = estimateRuntimeMinutes(sensorData, systemState)

HealthClass(text) ==
    CASE text \in {"NORMAL", "OK"} -> 0
      [] text \in {"WARNING", "WARN"} -> 1
      [] text \in {"CRITICAL", "CRIT"} -> 2

(* C29: in Mission Control v3.0 the health served by /data is the same      *)
(* classification as the health saveToLog writes and the status updateOLED  *)
(* shows for the sensor snapshot that was served.                           *)
C29_OneHealthClassification ==
    (firmware = "mc3.0" /\ reply.kind = "data")
        => /\ HealthClass(reply.health) = HealthClass(MC_logHealth(sensorData))
           /\ HealthClass(reply.health) = HealthClass(MC_oledStatus(sensorData))

(* The readings a DS18B20 can deliver, -55.0 to 125.0 degrees *)
BodyTempReadings == -550..1250

(* C30: in Testirockett, for the configured alarm_threshold_temp, whatever  *)
(* it is, some body temperature reading above the threshold raises the      *)
(* temperature alarm; and after checkAlarms the relay is HIGH exactly when  *)
(* an alarm condition holds and relay_enabled is true.                      *)
C30_TemperatureAlarmRaisable ==
    firmware = "testirockett"
        => /\ \E reading \in BodyTempReadings :
                 /\ reading > systemState.alarm_threshold_temp * 10
                 /\ TR_temperatureAlarm(reading, systemState)
           /\ driver.kind = "sensors"
                 => (data.relay <=> (TR_alarm(sensorData, systemState)
                                        /\ systemState.relay_enabled))

====
